---------------------------- MODULE Spec2Model ----------------------------
(***************************************************************************)
(* State-machine model of the quiz session engine of src/app.js: content   *)
(* parsing (loadCsv), the record cache, the two start handlers with their  *)
(* suspended fetch, loadQuestion / buildChoices, handleAnswer, the         *)
(* auto-advance timer, nextBtn, back / restart and the weak-word list kept *)
(* in localStorage.                                                        *)
(*                                                                         *)
(* A JavaScript string is a sequence of one-character strings.  A handler  *)
(* runs to completion; the only suspension point is the fetch inside       *)
(* loadCsv, so a start handler is two steps (click, fetch completion) when *)
(* the source is not cached and one step when it is.  An exception thrown  *)
(* inside a handler keeps the assignments made before the throw.           *)
(***************************************************************************)
EXTENDS Integers, Sequences, FiniteSets, TLC

(***************************************************************************)
(* Strings                                                                 *)
(***************************************************************************)
Digits == <<"0", "1", "2", "3", "4", "5", "6", "7", "8", "9">>

IsDigit(c) == \E d \in 1..10 : Digits[d] = c

DigitVal(c) == (CHOOSE d \in 1..10 : Digits[d] = c) - 1

IsSpace(c) == c \in {" ", "\t", "\r"}

RECURSIVE TrimLeft(_)
TrimLeft(s) ==
    IF s # <<>> /\ IsSpace(Head(s)) THEN TrimLeft(Tail(s)) ELSE s

RECURSIVE TrimRight(_)
TrimRight(s) ==
    IF s # <<>> /\ IsSpace(s[Len(s)]) THEN TrimRight(SubSeq(s, 1, Len(s) - 1)) ELSE s

\* String.prototype.trim
Trim(s) == TrimRight(TrimLeft(s))

RECURSIVE DigitPrefix(_)
DigitPrefix(s) ==
    IF s # <<>> /\ IsDigit(Head(s)) THEN <<Head(s)>> \o DigitPrefix(Tail(s)) ELSE <<>>

RECURSIVE DigitsValue(_, _)
DigitsValue(s, acc) ==
    IF s = <<>> THEN acc ELSE DigitsValue(Tail(s), acc * 10 + DigitVal(Head(s)))

\* parseInt(s): leading white space is skipped, an optional sign is read, then
\* the longest prefix of decimal digits; no digit gives NaN.  undefined (a
\* missing array element) is written Undefined and gives NaN as well.
Undefined == <<"undefined">>

NaN == [nan |-> TRUE, val |-> 0]

ParseInt(s) ==
    IF s = Undefined THEN NaN
    ELSE LET t    == TrimLeft(s)
             neg  == t # <<>> /\ Head(t) = "-"
             sgn  == t # <<>> /\ Head(t) \in {"-", "+"}
             body == IF sgn THEN Tail(t) ELSE t
             ds   == DigitPrefix(body)
         IN  IF ds = <<>> THEN NaN
             ELSE [nan |-> FALSE,
                   val |-> IF neg THEN 0 - DigitsValue(ds, 0) ELSE DigitsValue(ds, 0)]

\* text.split(/\r?\n/)
RECURSIVE SplitLinesFrom(_, _)
SplitLinesFrom(text, cur) ==
    IF text = <<>> THEN <<cur>>
    ELSE IF Head(text) = "\n" THEN <<cur>> \o SplitLinesFrom(Tail(text), <<>>)
    ELSE IF Head(text) = "\r" /\ Len(text) >= 2 /\ text[2] = "\n"
         THEN <<cur>> \o SplitLinesFrom(Tail(Tail(text)), <<>>)
    ELSE SplitLinesFrom(Tail(text), Append(cur, Head(text)))

SplitLines(text) == SplitLinesFrom(text, <<>>)

\* The character loop of loadCsv: a quote toggles inQuotes and is dropped, a
\* comma outside quotes closes the field (trimmed), anything else is kept.
RECURSIVE TokenizeFrom(_, _, _, _)
TokenizeFrom(line, parts, current, inQuotes) ==
    IF line = <<>> THEN [parts |-> parts, current |-> current]
    ELSE LET char == Head(line) IN
         IF char = "\"" THEN TokenizeFrom(Tail(line), parts, current, ~inQuotes)
         ELSE IF char = "," /\ ~inQuotes
              THEN TokenizeFrom(Tail(line), Append(parts, Trim(current)), <<>>, inQuotes)
         ELSE TokenizeFrom(Tail(line), parts, Append(current, char), inQuotes)

\* ... followed by  if (current) parts.push(current.trim())
Tokenize(line) ==
    LET r == TokenizeFrom(line, <<>>, <<>>, FALSE)
    IN  IF r.current # <<>> THEN Append(r.parts, Trim(r.current)) ELSE r.parts

\* parts[i] of a JavaScript array (0-based); a missing element is undefined
At(parts, i) == IF i + 1 <= Len(parts) THEN parts[i + 1] ELSE Undefined

\* arr.slice(from, to) with 0 <= from, 0 <= to
Slice(arr, from, to) ==
    LET hi == IF to < Len(arr) THEN to ELSE Len(arr)
    IN  IF from >= hi THEN <<>> ELSE SubSeq(arr, from + 1, hi)

\* arr.filter(x => x) on strings: the empty string is falsy
RECURSIVE FilterNonEmpty(_)
FilterNonEmpty(arr) ==
    IF arr = <<>> THEN <<>>
    ELSE IF Head(arr) # <<>> THEN <<Head(arr)>> \o FilterNonEmpty(Tail(arr))
    ELSE FilterNonEmpty(Tail(arr))

\* x || ""  for an array element
OrEmpty(x) == IF x = Undefined THEN <<>> ELSE x

(***************************************************************************)
(* Content parser (loadCsv, lines 208-254).  The field  row  stands for    *)
(* the identity of the JavaScript object created for the line.             *)
(***************************************************************************)
GrammarRecord(num, parts, row) ==
    LET correct      == parts[3]
        wrongChoices == FilterNonEmpty(Slice(parts, 3, 6))
    IN  [number      |-> num,
         question    |-> parts[2],
         correct     |-> correct,
         choices     |-> <<correct>> \o wrongChoices,
         source      |-> OrEmpty(At(parts, 6)),
         difficulty  |-> OrEmpty(At(parts, 7)),
         explanation |-> OrEmpty(At(parts, 8)),
         row         |-> row]

VocabRecord(num, parts, row) ==
    [number   |-> num,
     english  |-> At(parts, 1),
     meanings |-> FilterNonEmpty(Slice(parts, 2, Len(parts))),
     row      |-> row]

\* The records one line contributes: none or one.
ParseLine(line, isGrammar, row) ==
    IF Trim(line) = <<>> THEN <<>>
    ELSE LET parts == Tokenize(line)
             num   == ParseInt(At(parts, 0))
         IN  IF num.nan THEN <<>>
             ELSE IF isGrammar
                  THEN IF Len(parts) >= 6
                       THEN <<GrammarRecord(num.val, parts, row)>>
                       ELSE <<>>
             ELSE IF FilterNonEmpty(Slice(parts, 2, Len(parts))) # <<>>
                  THEN <<VocabRecord(num.val, parts, row)>>
                  ELSE <<>>

RECURSIVE ParseLines(_, _, _)
ParseLines(lines, isGrammar, row) ==
    IF lines = <<>> THEN <<>>
    ELSE ParseLine(Head(lines), isGrammar, row)
            \o ParseLines(Tail(lines), isGrammar, row + 1)

ParseCsv(text, isGrammar) == ParseLines(SplitLines(text), isGrammar, 1)

IsVocab(e) == "meanings" \in DOMAIN e

IsGrammar(e) == "choices" \in DOMAIN e

(***************************************************************************)
(* Bounds and the content served for the two sources                       *)
(***************************************************************************)
\* clicks that call loadCsv (the two start buttons and the refresh button)
\* followed in one behaviour
MaxClicks == 2

\* longest list of which every permutation is followed as a shuffle result
MaxShuffled == 3

RECURSIVE JoinLines(_)
JoinLines(lines) ==
    IF lines = <<>> THEN <<>>
    ELSE IF Len(lines) = 1 THEN Head(lines)
    ELSE Head(lines) \o <<"\n">> \o JoinLines(Tail(lines))

\* id,term,meaning...
VocabText ==
    JoinLines(<< <<"n", ",", "e", ",", "m">>,
                 <<"1", ",", "a", ",", "p">>,
                 <<"2", ",", "b", ",", "q">>,
                 <<"3", ",", "c", ",", "r", ",", "s">>,
                 <<"4", ",", "d", ",", "t">> >>)

\* id,prompt,correct,distractor1..3,source,tier,explanation
GrammarText ==
    JoinLines(<< <<"n", ",", "q", ",", "c", ",", "w", ",", "w", ",", "w">>,
                 <<"1", ",", "f", ",", "a", ",", "b", ",", ",", ",",
                   "u", ",", "2", ",", "x">>,
                 <<"2", ",", "g", ",", "a", ",", "a", ",", ",", ",",
                   "u", ",", "2">> >>)

VocabFile == "words.csv"

GrammarFile == "grammar_tense_fill.csv"

Files == {VocabFile, GrammarFile}

\* What the server answers for a source: its text, or a transport failure.
NetworkError == <<"NetworkError">>

ServerText(file) == IF file = GrammarFile THEN GrammarText ELSE VocabText

\* the body of a response whose status is not a success (404)
NotFoundBody == <<"N", "o", "t", " ", "F", "o", "u", "n", "d">>

\* What  await fetch(url)  followed by  await res.text()  gives with the
\* server up or unreachable: the text of the file, or a rejection.
FetchOutcomes(file) == {ServerText(file), NetworkError}

\* Values of the form controls the handlers read.
TimerSelectValues == {<<"0">>, <<"5">>}

RangeStartInputs == {<<"3">>, <<"9">>}

RangeEndInputs == {<<>>}

CountInputs == {<<"2">>}

GrammarCountInputs == {<<"1">>, <<"2">>}

\* countInput.value / grammarCountInput.value: a negative number, zero,
\* nothing, no number
OtherCountInputs == {<<"-", "1">>, <<"0">>, <<>>, <<"x">>}

\* rangeStart.value without a number, rangeEnd.value with one
OtherRangeStartInputs == {<<"x">>}

OtherRangeEndInputs == {<<"2">>}

\* parseInt of each text the form controls hold in the behaviours checked,
\* computed once: parseInt gives the same number for the same text
ParsedFormTexts ==
    [text \in TimerSelectValues \cup RangeStartInputs \cup RangeEndInputs
              \cup CountInputs \cup GrammarCountInputs \cup OtherCountInputs
              \cup OtherRangeStartInputs \cup OtherRangeEndInputs |->
        ParseInt(text)]

ParseIntOf(text) ==
    IF text \in DOMAIN ParsedFormTexts THEN ParsedFormTexts[text]
    ELSE ParseInt(text)

GrammarDifficultyValues == {"standard", "basic"}

\* the form of the vocabulary menu as the handler reads it
StartForms ==
    [weakMode : BOOLEAN, rangeStart : RangeStartInputs, rangeEnd : RangeEndInputs,
     count : CountInputs]

PasswordInputs == {<<"t", "k", "g">>, <<"x">>}

PASSWORD == <<"t", "k", "g">>

\* document.querySelectorAll(".choice"): the four answer buttons
NumChoiceButtons == 4

ButtonIdx == 0..(NumChoiceButtons - 1)

(***************************************************************************)
(* Program state                                                           *)
(***************************************************************************)
VARIABLES
    view,                     \* the view showView left visible
    isGrammarMode,
    currentGrammarDifficulty,
    allEntries,
    quizEntries,
    currentIndex,
    correctCount,
    wrongAnswers,
    currentChoicesData,
    answered,
    timerLive,                \* the interval held by timerInterval is running
    timerFor,                 \* the question loadQuestion started that interval for
    timeLimit,
    csvCache,
    weakWords,                \* localStorage item "weakWords"
    choiceButtons,            \* disabled flag and onclick of each .choice button
    nextBtnDisabled,
    startBtnDisabled,
    grammarStartBtnDisabled,
    forceUpdateBtnDisabled,
    pending,                  \* suspended handler invocations and armed timeouts
    resultTitle,
    weakListModal,            \* the weak-list modal and the ids it lists
    clicks,                   \* start and refresh clicks so far (at most MaxClicks)
    answerLog                 \* the handleAnswer calls since the session was built (history)

vars ==
    <<view, isGrammarMode, currentGrammarDifficulty, allEntries, quizEntries,
      currentIndex, correctCount, wrongAnswers, currentChoicesData, answered,
      timerLive, timerFor, timeLimit, csvCache, weakWords, choiceButtons,
      nextBtnDisabled, startBtnDisabled, grammarStartBtnDisabled,
      forceUpdateBtnDisabled, pending, resultTitle, weakListModal, clicks,
      answerLog>>

scoreVars == <<currentIndex, correctCount, wrongAnswers, answerLog>>

sessionVars == <<quizEntries, scoreVars>>

NoQuestion == [items |-> <<>>, index |-> 0]

UndefEntry == [undefined |-> TRUE]

\* entries[idx] of a JavaScript array
EntryAt(entries, idx) ==
    IF idx >= 0 /\ idx < Len(entries) THEN entries[idx + 1] ELSE UndefEntry

\* The stored text is not JSON text: JSON.parse of lines 299, 556, 687, 694
\* and 704 throws a SyntaxError.
WeakReadThrows == weakWords.kind = "malformed"

\* JSON.parse(localStorage.getItem("weakWords") || "[]"), where it returns
WeakIds == IF weakWords.kind = "array" THEN weakWords.ids ELSE <<>>

StoreWeak(ids) == [kind |-> "array", ids |-> ids]

Includes(ids, n) == \E i \in 1..Len(ids) : ids[i] = n

\* weakIds.splice(weakIds.indexOf(id)) in place of the filter of line 695:
\* the id and every id stored after it are dropped
WithoutSpliceToEnd(ids, n) ==
    IF Includes(ids, n)
    THEN SubSeq(ids, 1, (CHOOSE i \in 1..Len(ids) :
                            /\ ids[i] = n
                            /\ \A j \in 1..(i - 1) : ids[j] # n) - 1)
    ELSE ids

\* weakIds.filter(wid => wid !== id), line 695
RECURSIVE Without(_, _)
Without(ids, n) ==
    IF ids = <<>> THEN <<>>
    ELSE IF Head(ids) = n THEN Without(Tail(ids), n)
    ELSE <<Head(ids)>> \o Without(Tail(ids), n)

\* A draw with replacement in place of the shuffle: every list of the same
\* length made of elements of the array.
ShufflesWithReplacement(seq) ==
    { [i \in 1..Len(seq) |-> seq[p[i]]] : p \in [1..Len(seq) -> 1..Len(seq)] }

\* Every order arr.sort(() => 0.5 - Math.random()) can leave the array in.
\* Of a list longer than MaxShuffled the model follows the rotations only,
\* which still put every element at every position.
Shuffles(seq) ==
    IF Len(seq) <= MaxShuffled
    THEN { [i \in 1..Len(seq) |-> seq[p[i]]] : p \in Permutations(1..Len(seq)) }
    ELSE { [i \in 1..Len(seq) |-> seq[((i + k - 1) % Len(seq)) + 1]] : k \in 0..(Len(seq) - 1) }

\* arr.slice(0, count): a negative count is counted from the end
SliceCount(arr, count) ==
    LET hi == IF count < 0 THEN Len(arr) + count ELSE count
    IN  IF hi <= 0 THEN <<>>
        ELSE IF hi >= Len(arr) THEN arr ELSE SubSeq(arr, 1, hi)

(***************************************************************************)
(* buildChoices (lines 327-346)                                            *)
(***************************************************************************)
\* the ideographic comma U+3001 of join('、') / split('、'), written ";"
MeaningSep == ";"

RECURSIVE JoinWith(_, _)
JoinWith(strs, sep) ==
    IF strs = <<>> THEN <<>>
    ELSE IF Len(strs) = 1 THEN Head(strs)
    ELSE Head(strs) \o <<sep>> \o JoinWith(Tail(strs), sep)

RECURSIVE SplitOnFrom(_, _, _)
SplitOnFrom(s, sep, cur) ==
    IF s = <<>> THEN <<cur>>
    ELSE IF Head(s) = sep THEN <<cur>> \o SplitOnFrom(Tail(s), sep, <<>>)
    ELSE SplitOnFrom(Tail(s), sep, Append(cur, Head(s)))

NonBlank(str) == Trim(str) # <<>>

\* entry.meanings.join(sep).split(sep).filter(s => s.trim()), then the
\* first part or "first / second"
DisplayOf(entry) ==
    LET parts == SelectSeq(SplitOnFrom(JoinWith(entry.meanings, MeaningSep),
                                       MeaningSep, <<>>), NonBlank)
    IN  IF Len(parts) > 1 THEN parts[1] \o <<" ", "/", " ">> \o parts[2]
        ELSE IF Len(parts) = 1 THEN parts[1]
        ELSE Undefined

Numbers(entries, idxs) == { entries[i].number : i \in idxs }

\* A loop without the usedIds test of line 339: any records of another
\* number, two of the same number included.
DistractorPicksAnyRecord(correctEntry, all) ==
    LET others == { i \in 1..Len(all) : all[i].number # correctEntry.number }
        want   == IF Cardinality(others) < NumChoiceButtons - 1
                  THEN Cardinality(others)
                  ELSE NumChoiceButtons - 1
    IN  { S \in SUBSET others : Cardinality(S) = want }

\* The index sets the loop of lines 336-340 can pick as distractors: entries
\* of another number, one per number, until four picks are held.
DistractorPicks(correctEntry, all) ==
    LET others == { i \in 1..Len(all) : all[i].number # correctEntry.number }
        want   == IF Cardinality(Numbers(all, others)) < NumChoiceButtons - 1
                  THEN Cardinality(Numbers(all, others))
                  ELSE NumChoiceButtons - 1
    IN  { S \in SUBSET others :
            /\ Cardinality(S) = want
            /\ Cardinality(Numbers(all, S)) = want }

RECURSIVE SeqOfSet(_)
SeqOfSet(S) ==
    IF S = {} THEN <<>>
    ELSE LET m == CHOOSE x \in S : \A y \in S : x <= y
         IN  <<m>> \o SeqOfSet(S \ {m})

Threw == [threw |-> TRUE, data |-> <<>>]

Built(data) == [threw |-> FALSE, data |-> data]

\* Every outcome of buildChoices(correctEntry) with the record list  all  in
\* mode  grammar: the choice list in one of its shuffled orders, or a
\* TypeError (a record without the fields the branch reads).
BuildChoices(correctEntry, all, grammar) ==
    IF grammar
    THEN IF IsGrammar(correctEntry)
         THEN { Built(d) :
                  d \in Shuffles([i \in 1..Len(correctEntry.choices) |->
                                    [text |-> correctEntry.choices[i]]]) }
         ELSE {Threw}
    ELSE IF ~IsVocab(correctEntry) THEN {Threw}
    ELSE UNION { IF \E i \in S : ~IsVocab(all[i])
                 THEN {Threw}
                 ELSE { Built(d) :
                          d \in Shuffles(<<[entry |-> correctEntry,
                                            display |-> DisplayOf(correctEntry)]>>
                                   \o [k \in 1..Cardinality(S) |->
                                         [entry   |-> all[SeqOfSet(S)[k]],
                                          display |-> DisplayOf(all[SeqOfSet(S)[k]])]]) }
               : S \in DistractorPicks(correctEntry, all) }

(***************************************************************************)
(* loadQuestion (lines 375-458) with startTimer (lines 310-320)            *)
(***************************************************************************)
ResetButtons == [i \in ButtonIdx |-> [disabled |-> TRUE, onclick |-> FALSE]]

LiveButton == [disabled |-> FALSE, onclick |-> TRUE]

\* startTimer(): the previous interval is cleared; a new one runs only for a
\* positive time limit.
StartTimer(limit, question) ==
    IF limit <= 0 THEN [live |-> FALSE, for |-> NoQuestion]
    ELSE [live |-> TRUE, for |-> question]

\* The state loadQuestion leaves, for the session list  entries  at index
\* idx, with  built  the outcome of its buildChoices call,  limit  the value
\* of timeLimit and  timer  the interval state when it is called.
\* Lines 376-411 run first: answered is reset, nextBtn and every choice
\* button are disabled.  An exception (entry undefined, buildChoices, or
\* currentChoicesData[i].display past the end of the list) ends it there.
LoadQuestion(entries, idx, built, grammar, limit, timer) ==
    LET entry == EntryAt(entries, idx)
        base  == [answered           |-> FALSE,
                  nextBtnDisabled    |-> TRUE,
                  currentChoicesData |-> currentChoicesData,
                  choiceButtons      |-> ResetButtons,
                  timer              |-> timer,
                  threw              |-> TRUE]
    IN  IF entry = UndefEntry \/ built.threw THEN base
        ELSE IF grammar
        THEN [base EXCEPT !.currentChoicesData = built.data,
                          !.choiceButtons = [i \in ButtonIdx |-> LiveButton],
                          !.threw = FALSE]
        ELSE IF Len(built.data) < NumChoiceButtons
        THEN [base EXCEPT !.currentChoicesData = built.data,
                          !.choiceButtons =
                              [i \in ButtonIdx |->
                                  IF i < Len(built.data) THEN LiveButton
                                  ELSE ResetButtons[i]]]
        ELSE [base EXCEPT !.currentChoicesData = built.data,
                          !.choiceButtons = [i \in ButtonIdx |-> LiveButton],
                          !.timer = StartTimer(limit, [items |-> entries, index |-> idx]),
                          !.threw = FALSE]

(***************************************************************************)
(* handleAnswer (lines 264-305)                                            *)
(***************************************************************************)
TimeoutIdx == 0 - 1

\* currentChoicesData[idx]
ChoiceAt(idx) ==
    IF idx >= 0 /\ idx < Len(currentChoicesData)
    THEN currentChoicesData[idx + 1] ELSE [undefined |-> TRUE]

\* c.entry of a choice (undefined for a string choice)
EntryOfChoice(c) == IF "entry" \in DOMAIN c THEN c.entry ELSE UndefEntry

\* the string a grammar choice is (undefined past the end of the list)
TextOfChoice(c) == IF "text" \in DOMAIN c THEN c.text ELSE Undefined

Field(e, name) == IF name \in DOMAIN e THEN e[name] ELSE Undefined

\* currentChoicesData.findIndex(pred), -1 when there is none
FindIndex(Pred(_)) ==
    IF \E i \in 1..Len(currentChoicesData) : Pred(currentChoicesData[i])
    THEN (CHOOSE i \in 1..Len(currentChoicesData) :
              /\ Pred(currentChoicesData[i])
              /\ \A j \in 1..(i - 1) : ~Pred(currentChoicesData[j])) - 1
    ELSE 0 - 1

\* Is the answer  idx  the one handleAnswer counts as correct for  entry ?
GradedCorrect(idx, entry) ==
    /\ idx # TimeoutIdx
    /\ IF isGrammarMode
       THEN /\ "entry" \notin DOMAIN ChoiceAt(idx)
            /\ TextOfChoice(ChoiceAt(idx)) = Field(entry, "correct")
       ELSE EntryOfChoice(ChoiceAt(idx)) = entry

\* handleAnswer returned at line 265: nothing is touched
AnswerUntouched ==
    [answered        |-> answered,
     timerLive       |-> timerLive,
     choiceButtons   |-> choiceButtons,
     correctCount    |-> correctCount,
     wrongAnswers    |-> wrongAnswers,
     weakWords       |-> weakWords,
     threw           |-> FALSE]

\* lines 266-267 without clearInterval(timerInterval)
BeginAnswerKeepsTimer ==
    [AnswerUntouched EXCEPT !.answered = TRUE,
                            !.choiceButtons =
                                [i \in ButtonIdx |->
                                    [choiceButtons[i] EXCEPT !.disabled = TRUE]]]

\* lines 266-267: the question is marked answered, the interval cleared and
\* every choice button disabled
BeginAnswer ==
    [AnswerUntouched EXCEPT !.answered = TRUE,
                            !.timerLive = FALSE,
                            !.choiceButtons =
                                [i \in ButtonIdx |->
                                    [choiceButtons[i] EXCEPT !.disabled = TRUE]]]

\* a TypeError after lines 266-267
AnswerThrew == [BeginAnswer EXCEPT !.threw = TRUE]

\* lines 299-300 without the includes test
WeakAfterMissAlwaysPushes(number) == StoreWeak(Append(WeakIds, number))

\* lines 299-300: the stored list after a miss of the word  number
WeakAfterMiss(number) ==
    IF Includes(WeakIds, number) THEN weakWords
    ELSE StoreWeak(Append(WeakIds, number))

\* lines 270-287
GrammarAnswer(idx) ==
    LET entry == EntryAt(quizEntries, currentIndex)
    IN  IF entry = UndefEntry THEN AnswerThrew
        ELSE IF GradedCorrect(idx, entry)
        THEN [BeginAnswer EXCEPT !.correctCount = correctCount + 1]
        ELSE [BeginAnswer EXCEPT !.wrongAnswers =
                                     Append(wrongAnswers,
                                            [question |-> Field(entry, "question"),
                                             correct  |-> Field(entry, "correct")])]

\* lines 293-302: the wrong-answer branch of a vocabulary question
VocabMiss(entry, correctIdx) ==
    IF correctIdx = 0 - 1 \/ entry = UndefEntry THEN AnswerThrew
    ELSE LET pushed == [BeginAnswer EXCEPT !.wrongAnswers =
                                 Append(wrongAnswers,
                                        [english |-> Field(entry, "english"),
                                         meaning |-> ChoiceAt(correctIdx).display])]
         IN  IF WeakReadThrows
             THEN \* line 299 throws after the push of line 296
                  [pushed EXCEPT !.threw = TRUE]
             ELSE [pushed EXCEPT !.weakWords = WeakAfterMiss(entry.number)]

\* lines 288-302 with the weak-word store skipped when the timer made the call
VocabAnswerTimeoutSkipsWeak(idx) ==
    LET entry      == EntryAt(quizEntries, currentIndex)
        EntryIs(c) == EntryOfChoice(c) = entry
        miss       == VocabMiss(entry, FindIndex(EntryIs))
    IN  IF idx # TimeoutIdx /\ ChoiceAt(idx) = [undefined |-> TRUE] THEN AnswerThrew
        ELSE IF GradedCorrect(idx, entry)
        THEN [BeginAnswer EXCEPT !.correctCount = correctCount + 1]
        ELSE IF idx = TimeoutIdx THEN [miss EXCEPT !.weakWords = weakWords]
        ELSE miss

\* lines 288-302
VocabAnswer(idx) ==
    LET entry      == EntryAt(quizEntries, currentIndex)
        EntryIs(c) == EntryOfChoice(c) = entry
    IN  IF idx # TimeoutIdx /\ ChoiceAt(idx) = [undefined |-> TRUE] THEN AnswerThrew
        ELSE IF GradedCorrect(idx, entry)
        THEN [BeginAnswer EXCEPT !.correctCount = correctCount + 1]
        ELSE VocabMiss(entry, FindIndex(EntryIs))

\* handleAnswer without line 265
HandleAnswerUnguarded(idx) ==
    IF isGrammarMode THEN GrammarAnswer(idx) ELSE VocabAnswer(idx)

\* The state handleAnswer(idx) leaves, as the values of the variables it
\* assigns;  threw  tells that it stopped at a TypeError, before line 304.
HandleAnswer(idx) ==
    IF answered THEN AnswerUntouched
    ELSE IF isGrammarMode THEN GrammarAnswer(idx)
    ELSE VocabAnswer(idx)

\* line 304: nextBtn is enabled by a call that got past line 265 and did not throw
NextBtnAfter(h) == IF answered \/ h.threw THEN nextBtnDisabled ELSE FALSE

(***************************************************************************)
(* Initial state: the page as loaded, showView("password")                 *)
(***************************************************************************)
NoPending == [start |-> 0, grammar |-> 0, force |-> 0, reenable |-> 0, present |-> 0]

ModalClosed == [open |-> FALSE, ids |-> {}]

Init ==
    /\ view = "password"
    /\ isGrammarMode = FALSE
    /\ currentGrammarDifficulty = "standard"
    /\ allEntries = <<>>
    /\ quizEntries = <<>>
    /\ currentIndex = 0
    /\ correctCount = 0
    /\ wrongAnswers = <<>>
    /\ currentChoicesData = <<>>
    /\ answered = FALSE
    /\ timerLive = FALSE
    /\ timerFor = NoQuestion
    /\ timeLimit = 0
    /\ csvCache = [f \in Files |-> [cached |-> FALSE, list |-> <<>>]]
    /\ weakWords = [kind |-> "absent", ids |-> <<>>]
    /\ choiceButtons = [i \in ButtonIdx |-> [disabled |-> FALSE, onclick |-> FALSE]]
    /\ nextBtnDisabled = TRUE
    /\ startBtnDisabled = FALSE
    /\ grammarStartBtnDisabled = FALSE
    /\ forceUpdateBtnDisabled = FALSE
    /\ pending = NoPending
    /\ resultTitle = ""
    /\ weakListModal = ModalClosed
    /\ clicks = 0
    /\ answerLog = <<>>

\* A control of view v can be used: v is shown and the modal is not over it.
Usable(v) == view = v /\ ~weakListModal.open

(***************************************************************************)
(* Navigation (lines 463-496)                                              *)
(***************************************************************************)
navVars ==
    <<currentGrammarDifficulty, allEntries, sessionVars, currentChoicesData, answered, timerLive,
      timerFor, timeLimit, csvCache, weakWords, choiceButtons, nextBtnDisabled,
      startBtnDisabled, grammarStartBtnDisabled, forceUpdateBtnDisabled,
      pending, resultTitle, weakListModal, clicks>>

PasswordBtn(input) ==
    /\ Usable("password")
    /\ view' = IF input = PASSWORD THEN "modeSelection" ELSE view
    /\ UNCHANGED <<isGrammarMode, navVars>>

SelectVocabBtn ==
    /\ Usable("modeSelection")
    /\ isGrammarMode' = FALSE
    /\ view' = "menu"
    /\ UNCHANGED navVars

SelectGrammarBtn ==
    /\ Usable("modeSelection")
    /\ isGrammarMode' = TRUE
    /\ view' = "grammarModeSelection"
    /\ UNCHANGED navVars

BackToModeBtn ==
    /\ Usable("menu")
    /\ view' = "modeSelection"
    /\ UNCHANGED <<isGrammarMode, navVars>>

SelectGrammarProblemBtn ==
    /\ Usable("grammarModeSelection")
    /\ view' = "grammarTypeSelection"
    /\ UNCHANGED <<isGrammarMode, navVars>>

BackToMainModeBtn ==
    /\ Usable("grammarModeSelection")
    /\ isGrammarMode' = FALSE
    /\ view' = "modeSelection"
    /\ UNCHANGED navVars

SelectFillBlankBtn ==
    /\ Usable("grammarTypeSelection")
    /\ view' = "grammarFillCategory"
    /\ UNCHANGED <<isGrammarMode, navVars>>

BackToGrammarModeBtn ==
    /\ Usable("grammarTypeSelection")
    /\ view' = "grammarModeSelection"
    /\ UNCHANGED <<isGrammarMode, navVars>>

GrammarCategoryBtn ==
    /\ Usable("grammarFillCategory")
    /\ view' = "grammarMenu"
    /\ UNCHANGED <<isGrammarMode, navVars>>

BackToGrammarTypeBtn ==
    /\ Usable("grammarFillCategory")
    /\ view' = "grammarTypeSelection"
    /\ UNCHANGED <<isGrammarMode, navVars>>

BackToGrammarCategoryBtn ==
    /\ Usable("grammarMenu")
    /\ view' = "grammarFillCategory"
    /\ UNCHANGED <<isGrammarMode, navVars>>

(***************************************************************************)
(* loadCsv (lines 201-258)                                                 *)
(***************************************************************************)
\* line 202 with the test  csvCache[fileName].length  for the entry
CacheHitNeedsRecords(file, forceRefresh) ==
    csvCache[file].cached /\ csvCache[file].list # <<>> /\ ~forceRefresh

\* line 202: a cached list is returned without a fetch unless forceRefresh
CacheHit(file, forceRefresh) == csvCache[file].cached /\ ~forceRefresh

\* words.csv after the update: the meaning of word 3 is changed
UpdatedVocabText ==
    JoinLines(<< <<"n", ",", "e", ",", "m">>,
                 <<"1", ",", "a", ",", "p">>,
                 <<"2", ",", "b", ",", "q">>,
                 <<"3", ",", "c", ",", "v">>,
                 <<"4", ",", "d", ",", "t">> >>)

\* words.csv with lines that exercise the parser (see SpecContent)
ProbeVocabText ==
    JoinLines(<< <<"n", ",", "e", ",", "m">>,
                 <<"3", "x", ",", "a", ",", "p">>,
                 <<"3", ",", "b", ",", MeaningSep>>,
                 <<"4", ".", "5", ",", "c", ",", "\"", "q", ",", "r", "\"", ",", ",", "s">>,
                 <<"5", ",", "d", ",", ",">> >>)

\* The texts a response carries in the behaviours checked, each parsed once:
\* loadCsv computes the same list from the same text (lines 206-254).
ParsedResponses ==
    [text \in {VocabText, GrammarText, NotFoundBody, UpdatedVocabText,
               ProbeVocabText} |->
        [isGrammar \in BOOLEAN |-> ParseCsv(text, isGrammar)]]

LoadedList(text, isGrammar) ==
    IF text \in DOMAIN ParsedResponses THEN ParsedResponses[text][isGrammar]
    ELSE ParseCsv(text, isGrammar)

\* lines 206-255: the response text parsed and stored under the file name
CacheAfterFetch(file, text, isGrammar) ==
    [csvCache EXCEPT ![file] = [cached |-> TRUE, list |-> LoadedList(text, isGrammar)]]

(***************************************************************************)
(* startBtn.onclick (lines 540-584), from the return of loadCsv on         *)
(***************************************************************************)
\* lines 561-563 without the filter of line 563
InRangeIgnoresEnd(item, s, e) ==
    ParseIntOf(s).nan \/ item.number >= ParseIntOf(s).val

\* lines 561-563: the item passes both range filters
InRange(item, s, e) ==
    /\ ParseIntOf(s).nan \/ item.number >= ParseIntOf(s).val
    /\ ParseIntOf(e).nan \/ item.number <= ParseIntOf(e).val

CountOf(input) == IF ParseIntOf(input).nan THEN 20 ELSE ParseIntOf(input).val

\* lines 554-564: the filtered list, and whether filter() made a new array
\* (without one, data is the very array held by allEntries and the cache)
VocabFilter(list, weakMode, s, e) ==
    LET IsWeak(item) == Includes(WeakIds, item.number)
        Ranged(item) == InRange(item, s, e)
    IN  IF weakMode
        THEN [data |-> SelectSeq(list, IsWeak), copied |-> TRUE]
        ELSE [data |-> SelectSeq(list, Ranged),
              copied |-> ~ParseIntOf(s).nan \/ ~ParseIntOf(e).nan]

\* The rest of the handler once loadCsv has returned  list  (the entry of
\* cache  for the vocabulary file);  limit  is timeLimit,  timer  the
\* interval state and  buttons  the choice buttons at that moment.
\* form  is what the handler reads from the form after the await:
\* weakModeCheck.checked, rangeStart.value, rangeEnd.value, countInput.value.
StartContinue(list, cache, limit, timer, buttons, form) ==
      LET weakMode   == form.weakMode
          s          == form.rangeStart
          e          == form.rangeEnd
          countInput == form.count
          f          == VocabFilter(list, weakMode, s, e)
      IN
      /\ startBtnDisabled' = FALSE
      /\ IF weakMode /\ (WeakReadThrows \/ f.data = <<>>)
         THEN \* line 556 or line 558: throw, caught at line 583
              /\ allEntries' = list
              /\ csvCache' = cache
              /\ timerLive' = timer.live
              /\ timerFor' = timer.for
              /\ choiceButtons' = buttons
              /\ UNCHANGED <<sessionVars, view, answered, nextBtnDisabled,
                             currentChoicesData>>
         ELSE \E shuffled \in Shuffles(f.data) :
              LET sorted == IF f.copied THEN list ELSE shuffled
                  items  == SliceCount(shuffled, CountOf(countInput))
              IN
              /\ allEntries' = sorted
              /\ csvCache' = [cache EXCEPT ![VocabFile].list = sorted]
              /\ quizEntries' = items
              /\ IF items = <<>>
                 THEN \* line 569: throw after quizEntries was assigned
                      /\ timerLive' = timer.live
                      /\ timerFor' = timer.for
                      /\ choiceButtons' = buttons
                      /\ UNCHANGED <<scoreVars, view,
                                     answered, nextBtnDisabled, currentChoicesData>>
                 ELSE \E built \in BuildChoices(EntryAt(items, 0), sorted, isGrammarMode) :
                      LET lq == LoadQuestion(items, 0, built, isGrammarMode, limit, timer)
                      IN
                      /\ currentIndex' = 0
                      /\ correctCount' = 0
                      /\ wrongAnswers' = <<>>
                      /\ answerLog' = <<>>
                      /\ view' = "quiz"
                      /\ answered' = lq.answered
                      /\ nextBtnDisabled' = lq.nextBtnDisabled
                      /\ currentChoicesData' = lq.currentChoicesData
                      /\ choiceButtons' = lq.choiceButtons
                      /\ timerLive' = lq.timer.live
                      /\ timerFor' = lq.timer.for

startFrame ==
    <<isGrammarMode, currentGrammarDifficulty, weakWords, grammarStartBtnDisabled,
      forceUpdateBtnDisabled, resultTitle, weakListModal>>

DeadTimer == [live |-> FALSE, for |-> NoQuestion]

\* The click, up to the await of loadCsv; with a cached list the handler
\* resumes before any other event and the whole of it is one step.
StartBtnWith(timerSelect, form) ==
    /\ Usable("menu")
    /\ ~startBtnDisabled
    /\ clicks < MaxClicks
    /\ clicks' = clicks + 1
    /\ timeLimit' = ParseIntOf(timerSelect).val
    /\ IF CacheHit(VocabFile, FALSE)
       THEN /\ StartContinue(csvCache[VocabFile].list, csvCache,
                             ParseIntOf(timerSelect).val, DeadTimer, ResetButtons,
                             form)
            /\ UNCHANGED pending
       ELSE /\ pending' = [pending EXCEPT !.start = @ + 1]
            /\ startBtnDisabled' = TRUE
            /\ timerLive' = FALSE
            /\ timerFor' = NoQuestion
            /\ choiceButtons' = ResetButtons
            /\ UNCHANGED <<allEntries, csvCache, sessionVars, view, answered,
                           nextBtnDisabled, currentChoicesData>>
    /\ UNCHANGED startFrame

StartBtn(timerSelect) == \E form \in StartForms : StartBtnWith(timerSelect, form)

StartFetchFailedStaysDisabled ==
    /\ startBtnDisabled' = startBtnDisabled
    /\ UNCHANGED <<allEntries, csvCache, sessionVars, view, answered,
                   nextBtnDisabled, currentChoicesData, choiceButtons,
                   timerLive, timerFor>>

\* loadCsv rethrows the error of fetch (line 257); the handler's catch shows
\* it and re-enables the button (line 583)
StartFetchFailed ==
    /\ startBtnDisabled' = FALSE
    /\ UNCHANGED <<allEntries, csvCache, sessionVars, view, answered,
                   nextBtnDisabled, currentChoicesData, choiceButtons,
                   timerLive, timerFor>>

\* The fetch of a suspended startBtn handler completes.
StartFetchDoneWith(outcome, form) ==
    /\ pending.start > 0
    /\ pending' = [pending EXCEPT !.start = @ - 1]
    /\ IF outcome = NetworkError
       THEN StartFetchFailed
       ELSE StartContinue(LoadedList(outcome, FALSE),
                          CacheAfterFetch(VocabFile, outcome, FALSE),
                          timeLimit, [live |-> timerLive, for |-> timerFor],
                          choiceButtons, form)
    /\ UNCHANGED <<timeLimit, clicks, startFrame>>

StartFetchDone(outcome) == \E form \in StartForms : StartFetchDoneWith(outcome, form)

(***************************************************************************)
(* grammarStartBtn.onclick (lines 589-640)                                 *)
(***************************************************************************)
\* difficultyMap[currentGrammarDifficulty]; "" stands for undefined
TargetDifficulty(d) ==
    IF d = "basic" THEN <<"1">>
    ELSE IF d = "standard" THEN <<"2">>
    ELSE IF d = "advanced" THEN <<"3">>
    ELSE <<>>

GrammarFilter(list, d) ==
    LET HasTier(item) == Field(item, "difficulty") = TargetDifficulty(d)
    IN  IF TargetDifficulty(d) # <<>>
        THEN [data |-> SelectSeq(list, HasTier), copied |-> TRUE]
        ELSE [data |-> list, copied |-> FALSE]

\* countInput  is grammarCountInput.value, read after the await
GrammarStartContinue(list, cache, difficulty, timer, countInput) ==
      LET f == GrammarFilter(list, difficulty) IN
      /\ grammarStartBtnDisabled' = FALSE
      /\ IF f.data = <<>>
         THEN \* line 612: throw, caught at line 635
              /\ allEntries' = list
              /\ csvCache' = cache
              /\ timerLive' = timer.live
              /\ timerFor' = timer.for
              /\ UNCHANGED <<sessionVars, view, answered, nextBtnDisabled,
                             currentChoicesData, choiceButtons>>
         ELSE \E shuffled \in Shuffles(f.data) :
              LET sorted == IF f.copied THEN list ELSE shuffled
                  items  == SliceCount(shuffled, CountOf(countInput))
              IN
              /\ allEntries' = sorted
              /\ csvCache' = [cache EXCEPT ![GrammarFile].list = sorted]
              /\ quizEntries' = items
              /\ IF items = <<>>
                 THEN \* line 620: throw after quizEntries was assigned
                      /\ timerLive' = timer.live
                      /\ timerFor' = timer.for
                      /\ UNCHANGED <<scoreVars, view,
                                     answered, nextBtnDisabled, currentChoicesData,
                                     choiceButtons>>
                 ELSE \E built \in BuildChoices(EntryAt(items, 0), sorted, isGrammarMode) :
                      LET lq == LoadQuestion(items, 0, built, isGrammarMode, timeLimit, timer)
                      IN
                      /\ currentIndex' = 0
                      /\ correctCount' = 0
                      /\ wrongAnswers' = <<>>
                      /\ answerLog' = <<>>
                      /\ view' = "quiz"
                      /\ answered' = lq.answered
                      /\ nextBtnDisabled' = lq.nextBtnDisabled
                      /\ currentChoicesData' = lq.currentChoicesData
                      /\ choiceButtons' = lq.choiceButtons
                      /\ timerLive' = lq.timer.live
                      /\ timerFor' = lq.timer.for

grammarStartFrame ==
    <<isGrammarMode, timeLimit, weakWords, startBtnDisabled, forceUpdateBtnDisabled,
      resultTitle, weakListModal>>

GrammarStartBtnWith(difficulty, countInput) ==
    /\ Usable("grammarMenu")
    /\ ~grammarStartBtnDisabled
    /\ clicks < MaxClicks
    /\ clicks' = clicks + 1
    /\ currentGrammarDifficulty' = difficulty
    /\ IF CacheHit(GrammarFile, FALSE)
       THEN /\ GrammarStartContinue(csvCache[GrammarFile].list, csvCache,
                                    difficulty, DeadTimer, countInput)
            /\ UNCHANGED pending
       ELSE /\ pending' = [pending EXCEPT !.grammar = @ + 1]
            /\ grammarStartBtnDisabled' = TRUE
            /\ timerLive' = FALSE
            /\ timerFor' = NoQuestion
            /\ UNCHANGED <<allEntries, csvCache, sessionVars, view, answered,
                           nextBtnDisabled, currentChoicesData, choiceButtons>>
    /\ UNCHANGED grammarStartFrame

GrammarStartBtn(difficulty) ==
    \E countInput \in GrammarCountInputs : GrammarStartBtnWith(difficulty, countInput)

\* loadCsv rethrows the error of fetch (line 257); the handler's catch shows
\* it and re-enables the button (lines 636-637)
GrammarStartFetchFailed ==
    /\ grammarStartBtnDisabled' = FALSE
    /\ UNCHANGED <<allEntries, csvCache, sessionVars, view, answered,
                   nextBtnDisabled, currentChoicesData, choiceButtons,
                   timerLive, timerFor>>

GrammarStartFetchDoneWith(outcome, countInput) ==
    /\ pending.grammar > 0
    /\ pending' = [pending EXCEPT !.grammar = @ - 1]
    /\ IF outcome = NetworkError
       THEN GrammarStartFetchFailed
       ELSE GrammarStartContinue(LoadedList(outcome, TRUE),
                                 CacheAfterFetch(GrammarFile, outcome, TRUE),
                                 currentGrammarDifficulty,
                                 [live |-> timerLive, for |-> timerFor],
                                 countInput)
    /\ UNCHANGED <<currentGrammarDifficulty, clicks, grammarStartFrame>>

GrammarStartFetchDone(outcome) ==
    \E countInput \in GrammarCountInputs : GrammarStartFetchDoneWith(outcome, countInput)

(***************************************************************************)
(* forceUpdateBtn.onclick (lines 645-655)                                  *)
(***************************************************************************)
forceFrame ==
    <<view, isGrammarMode, currentGrammarDifficulty, allEntries, sessionVars,
      currentChoicesData, answered, timerLive, timerFor, timeLimit, weakWords,
      choiceButtons, nextBtnDisabled, startBtnDisabled, grammarStartBtnDisabled,
      resultTitle, weakListModal>>

ForceUpdateBtn ==
    /\ Usable("menu")
    /\ ~forceUpdateBtnDisabled
    /\ clicks < MaxClicks
    /\ clicks' = clicks + 1
    /\ forceUpdateBtnDisabled' = TRUE
    /\ pending' = [pending EXCEPT !.force = @ + 1]
    /\ UNCHANGED <<csvCache, forceFrame>>

\* A refresh whose continuation takes the session list again from the
\* refreshed records, as many as the session had.
ForceUpdateFetchDoneReloadsSession(outcome) ==
    /\ pending.force > 0
    /\ pending' = [pending EXCEPT !.force = @ - 1, !.reenable = @ + 1]
    /\ csvCache' = IF outcome = NetworkError THEN csvCache
                   ELSE CacheAfterFetch(VocabFile, outcome, FALSE)
    /\ quizEntries' = IF outcome = NetworkError THEN quizEntries
                      ELSE SliceCount(csvCache'[VocabFile].list, Len(quizEntries))
    /\ UNCHANGED <<forceUpdateBtnDisabled, clicks, view, isGrammarMode,
                   currentGrammarDifficulty, allEntries, scoreVars,
                   currentChoicesData, answered, timerLive, timerFor, timeLimit,
                   weakWords, choiceButtons, nextBtnDisabled, startBtnDisabled,
                   grammarStartBtnDisabled, resultTitle, weakListModal>>

\* loadCsv(file, true) returns or throws; either way a 1500 ms timeout is
\* armed that re-enables the button.
ForceUpdateFetchDone(outcome) ==
    /\ pending.force > 0
    /\ pending' = [pending EXCEPT !.force = @ - 1, !.reenable = @ + 1]
    /\ csvCache' = IF outcome = NetworkError THEN csvCache
                   ELSE CacheAfterFetch(VocabFile, outcome, FALSE)
    /\ UNCHANGED <<forceUpdateBtnDisabled, clicks, forceFrame>>

ForceUpdateReenable ==
    /\ pending.reenable > 0
    /\ pending' = [pending EXCEPT !.reenable = @ - 1]
    /\ forceUpdateBtnDisabled' = FALSE
    /\ UNCHANGED <<csvCache, clicks, forceFrame>>

(***************************************************************************)
(* Answering: a choice button's onclick, and the interval callback         *)
(***************************************************************************)
answerFrame ==
    <<view, isGrammarMode, currentGrammarDifficulty, allEntries, quizEntries,
      currentIndex, currentChoicesData, timeLimit, csvCache, startBtnDisabled,
      grammarStartBtnDisabled, forceUpdateBtnDisabled, pending, resultTitle,
      weakListModal, clicks>>

\* History of one handleAnswer(idx) call: the index it found, whether it was
\* the timer's call, and whether it returned at line 265.
AnswerCall(idx) ==
    [index |-> currentIndex, timeout |-> idx = TimeoutIdx, guarded |-> answered]

\* The assignments of one handleAnswer(idx) call.
Answer(idx) ==
    LET h == HandleAnswer(idx) IN
    /\ answered' = h.answered
    /\ timerLive' = h.timerLive
    /\ timerFor' = IF h.timerLive THEN timerFor ELSE NoQuestion
    /\ choiceButtons' = h.choiceButtons
    /\ correctCount' = h.correctCount
    /\ wrongAnswers' = h.wrongAnswers
    /\ weakWords' = h.weakWords
    /\ nextBtnDisabled' = NextBtnAfter(h)
    /\ answerLog' = Append(answerLog, AnswerCall(idx))
    /\ UNCHANGED answerFrame

\* btn.onclick = () => handleAnswer(i), installed at lines 433 / 450
ChoiceBtn(i) ==
    /\ Usable("quiz")
    /\ ~choiceButtons[i].disabled
    /\ choiceButtons[i].onclick
    /\ Answer(i)

\* The interval callback of lines 315-319 at or after the deadline (before
\* it, a tick only redraws the timer bar): the interval is cleared, then
\* handleAnswer(-1) runs.
TimerExpires ==
    /\ timerLive
    /\ LET h == HandleAnswer(TimeoutIdx) IN
       /\ answered' = h.answered
       /\ timerLive' = FALSE
       /\ timerFor' = NoQuestion
       /\ choiceButtons' = h.choiceButtons
       /\ correctCount' = h.correctCount
       /\ wrongAnswers' = h.wrongAnswers
       /\ weakWords' = h.weakWords
       /\ nextBtnDisabled' = NextBtnAfter(h)
       /\ answerLog' = Append(answerLog, AnswerCall(TimeoutIdx))
    /\ UNCHANGED answerFrame

(***************************************************************************)
(* nextBtn.onclick (lines 660-684)                                         *)
(***************************************************************************)
\* line 665
Flawless(count, entries) == count = Len(entries) /\ Len(entries) > 0

nextFrame ==
    <<isGrammarMode, currentGrammarDifficulty, allEntries, quizEntries,
      correctCount, wrongAnswers, answerLog, timeLimit, csvCache, weakWords,
      startBtnDisabled, grammarStartBtnDisabled, forceUpdateBtnDisabled,
      pending, weakListModal, clicks>>

NextBtn ==
    /\ Usable("quiz")
    /\ ~nextBtnDisabled
    /\ currentIndex' = currentIndex + 1
    /\ IF currentIndex + 1 >= Len(quizEntries)
       THEN /\ view' = "result"
            /\ resultTitle' = IF Flawless(correctCount, quizEntries)
                              THEN "flawless" ELSE "result"
            /\ UNCHANGED <<answered, nextBtnDisabled, currentChoicesData,
                           choiceButtons, timerLive, timerFor>>
       ELSE \E built \in BuildChoices(EntryAt(quizEntries, currentIndex + 1),
                                      allEntries, isGrammarMode) :
            LET lq == LoadQuestion(quizEntries, currentIndex + 1, built,
                                   isGrammarMode, timeLimit,
                                   [live |-> timerLive, for |-> timerFor])
            IN
            /\ answered' = lq.answered
            /\ nextBtnDisabled' = lq.nextBtnDisabled
            /\ currentChoicesData' = lq.currentChoicesData
            /\ choiceButtons' = lq.choiceButtons
            /\ timerLive' = lq.timer.live
            /\ timerFor' = lq.timer.for
            /\ UNCHANGED <<view, resultTitle>>
    /\ UNCHANGED nextFrame

(***************************************************************************)
(* backBtn.onclick and restartBtn.onclick (lines 745-785)                  *)
(***************************************************************************)
leaveFrame ==
    <<isGrammarMode, currentGrammarDifficulty, allEntries, sessionVars,
      currentChoicesData, answered, timeLimit, csvCache, weakWords,
      choiceButtons, nextBtnDisabled, forceUpdateBtnDisabled, pending,
      resultTitle, weakListModal, clicks>>

\* lines 748-764 and 768-784: the start button of the active mode is
\* re-enabled and its menu shown
ToMenu ==
    /\ view' = IF isGrammarMode THEN "grammarMenu" ELSE "menu"
    /\ startBtnDisabled' = IF isGrammarMode THEN startBtnDisabled ELSE FALSE
    /\ grammarStartBtnDisabled' = IF isGrammarMode THEN FALSE ELSE grammarStartBtnDisabled

BackBtn ==
    /\ Usable("quiz")
    /\ timerLive' = FALSE
    /\ timerFor' = NoQuestion
    /\ ToMenu
    /\ UNCHANGED leaveFrame

RestartBtn ==
    /\ Usable("result")
    /\ ToMenu
    /\ UNCHANGED <<timerLive, timerFor, leaveFrame>>

(***************************************************************************)
(* The weak-word list (lines 687-735)                                      *)
(***************************************************************************)
weakFrame ==
    <<view, isGrammarMode, currentGrammarDifficulty, allEntries, sessionVars,
      currentChoicesData, answered, timerLive, timerFor, timeLimit, csvCache,
      choiceButtons, nextBtnDisabled, startBtnDisabled, grammarStartBtnDisabled,
      forceUpdateBtnDisabled, pending, resultTitle, clicks>>

\* allEntries.find(e => e.number === id), as an index (0: none)
FindEntry(id) ==
    IF \E i \in 1..Len(allEntries) : allEntries[i].number = id
    THEN CHOOSE i \in 1..Len(allEntries) :
            /\ allEntries[i].number = id
            /\ \A j \in 1..(i - 1) : allEntries[j].number # id
    ELSE 0

\* openWeakListBtn.onclick with the stored ids  ids: a row with a remove
\* button for every id that has an entry; entry.meanings.slice throws for an
\* entry without meanings, before the modal is shown (line 715).
RenderWeakList(ids) ==
    LET found == { ids[k] : k \in { k \in 1..Len(ids) : FindEntry(ids[k]) # 0 } }
    IN  IF \E id \in found : ~IsVocab(allEntries[FindEntry(id)])
        THEN [open |-> weakListModal.open, ids |-> IF weakListModal.open THEN found ELSE {}]
        ELSE [open |-> TRUE, ids |-> found]

OpenWeakListBtn ==
    /\ Usable("menu")
    /\ weakListModal' = IF WeakReadThrows
                        THEN weakListModal    \* line 704 throws
                        ELSE RenderWeakList(WeakIds)
    /\ UNCHANGED <<weakWords, weakFrame>>

CloseWeakListBtn ==
    /\ weakListModal.open
    /\ weakListModal' = ModalClosed
    /\ UNCHANGED <<weakWords, weakFrame>>

\* window.removeWeak(id), from the remove button of a listed row
RemoveWeak(id) ==
    /\ weakListModal.open
    /\ id \in weakListModal.ids
    /\ IF WeakReadThrows
       THEN UNCHANGED <<weakWords, weakListModal>>    \* line 694 throws
       ELSE /\ weakWords' = StoreWeak(Without(WeakIds, id))
            /\ weakListModal' = RenderWeakList(Without(WeakIds, id))
    /\ UNCHANGED weakFrame

\* clearHistoryBtn.onclick; confirmed is the answer to confirm()
ClearHistoryBtn(confirmed) ==
    /\ Usable("menu")
    /\ weakWords' = IF confirmed THEN [kind |-> "absent", ids |-> <<>>] ELSE weakWords
    /\ UNCHANGED <<weakListModal, weakFrame>>

(***************************************************************************)
(* Specification                                                           *)
(***************************************************************************)
Next ==
    \/ \E input \in PasswordInputs : PasswordBtn(input)
    \/ SelectVocabBtn
    \/ SelectGrammarBtn
    \/ BackToModeBtn
    \/ SelectGrammarProblemBtn
    \/ BackToMainModeBtn
    \/ SelectFillBlankBtn
    \/ BackToGrammarModeBtn
    \/ GrammarCategoryBtn
    \/ BackToGrammarTypeBtn
    \/ BackToGrammarCategoryBtn
    \/ \E sel \in TimerSelectValues : StartBtn(sel)
    \/ \E outcome \in FetchOutcomes(VocabFile) : StartFetchDone(outcome)
    \/ \E d \in GrammarDifficultyValues : GrammarStartBtn(d)
    \/ \E outcome \in FetchOutcomes(GrammarFile) : GrammarStartFetchDone(outcome)
    \/ ForceUpdateBtn
    \/ \E outcome \in FetchOutcomes(VocabFile) : ForceUpdateFetchDone(outcome)
    \/ ForceUpdateReenable
    \/ \E i \in ButtonIdx : ChoiceBtn(i)
    \/ TimerExpires
    \/ NextBtn
    \/ BackBtn
    \/ RestartBtn
    \/ OpenWeakListBtn
    \/ CloseWeakListBtn
    \/ \E id \in weakListModal.ids : RemoveWeak(id)
    \/ \E confirmed \in BOOLEAN : ClearHistoryBtn(confirmed)

Spec == Init /\ [][Next]_vars

(***************************************************************************)
(* The page loaded over a stored "weakWords" value it did not write        *)
(***************************************************************************)
\* what localStorage may hold when the page loads: nothing, or text that is
\* not JSON text
StoredWeakWords ==
    {[kind |-> "absent", ids |-> <<>>], [kind |-> "malformed", ids |-> <<>>]}

InitStored ==
    /\ view = "password"
    /\ isGrammarMode = FALSE
    /\ currentGrammarDifficulty = "standard"
    /\ allEntries = <<>>
    /\ quizEntries = <<>>
    /\ currentIndex = 0
    /\ correctCount = 0
    /\ wrongAnswers = <<>>
    /\ currentChoicesData = <<>>
    /\ answered = FALSE
    /\ timerLive = FALSE
    /\ timerFor = NoQuestion
    /\ timeLimit = 0
    /\ csvCache = [f \in Files |-> [cached |-> FALSE, list |-> <<>>]]
    /\ weakWords \in StoredWeakWords
    /\ choiceButtons = [i \in ButtonIdx |-> [disabled |-> FALSE, onclick |-> FALSE]]
    /\ nextBtnDisabled = TRUE
    /\ startBtnDisabled = FALSE
    /\ grammarStartBtnDisabled = FALSE
    /\ forceUpdateBtnDisabled = FALSE
    /\ pending = NoPending
    /\ resultTitle = ""
    /\ weakListModal = ModalClosed
    /\ clicks = 0
    /\ answerLog = <<>>

SpecStored == InitStored /\ [][Next]_vars

(***************************************************************************)
(* The server answers a fetch with a non-success status.  fetch resolves   *)
(* for any status and loadCsv reads neither res.ok nor res.status          *)
(* (lines 205-206), so the handlers go on with the body of the response.   *)
(***************************************************************************)
NextNonSuccess ==
    \/ Next
    \/ StartFetchDone(NotFoundBody)
    \/ GrammarStartFetchDone(NotFoundBody)
    \/ ForceUpdateFetchDone(NotFoundBody)

SpecNonSuccess == Init /\ [][NextNonSuccess]_vars

(***************************************************************************)
(* The file on the server is replaced while the page is open: a fetch is   *)
(* answered with the text as it was or as it is now.                       *)
(***************************************************************************)
NextServerUpdate ==
    \/ Next
    \/ StartFetchDone(UpdatedVocabText)
    \/ ForceUpdateFetchDone(UpdatedVocabText)

SpecServerUpdate == Init /\ [][NextServerUpdate]_vars

(***************************************************************************)
(* The count fields hold other texts than a positive number                *)
(***************************************************************************)
OtherCountForms ==
    [weakMode : {FALSE}, rangeStart : RangeStartInputs, rangeEnd : RangeEndInputs,
     count : OtherCountInputs]

NextCounts ==
    \/ Next
    \/ \E sel \in TimerSelectValues, form \in OtherCountForms :
          StartBtnWith(sel, form)
    \/ \E outcome \in FetchOutcomes(VocabFile), form \in OtherCountForms :
          StartFetchDoneWith(outcome, form)
    \/ \E d \in GrammarDifficultyValues, c \in OtherCountInputs :
          GrammarStartBtnWith(d, c)
    \/ \E outcome \in FetchOutcomes(GrammarFile), c \in OtherCountInputs :
          GrammarStartFetchDoneWith(outcome, c)

SpecCounts == Init /\ [][NextCounts]_vars

(***************************************************************************)
(* A handleAnswer call that arrives although the question is graded.  In   *)
(* the page the first call disables the buttons and clears the interval    *)
(* (lines 266-267), so the guard of line 265 is met only by a call that    *)
(* is made all the same; SpecResubmit adds that call.                      *)
(***************************************************************************)
\* guarded calls followed per session
MaxResubmits == 1

AnswerIdx == ButtonIdx \cup {TimeoutIdx}

IsGuarded(call) == call.guarded

GuardedCalls == SelectSeq(answerLog, IsGuarded)

Resubmit(idx) ==
    /\ view = "quiz"
    /\ answered
    /\ Len(GuardedCalls) < MaxResubmits
    /\ Answer(idx)

NextResubmit ==
    \/ Next
    \/ \E idx \in AnswerIdx : Resubmit(idx)

SpecResubmit == Init /\ [][NextResubmit]_vars

(***************************************************************************)
(* Vocabulary of the properties                                            *)
(***************************************************************************)
CurrentEntry == EntryAt(quizEntries, currentIndex)

IsGrading(call) == ~call.guarded

\* the calls that got past line 265, and the indices they graded
GradedCalls == SelectSeq(answerLog, IsGrading)

GradedIndices == [k \in 1..Len(GradedCalls) |-> GradedCalls[k].index]

Upto(n) == [k \in 1..n |-> k - 1]

WeakSet == {WeakIds[k] : k \in 1..Len(WeakIds)}

\* a question is on screen with its choices installed and is not graded
Presenting ==
    /\ view = "quiz"
    /\ ~answered
    /\ \E i \in ButtonIdx : choiceButtons[i].onclick

\* the indices graded correct for the question on screen
CorrectIndices == {i \in ButtonIdx : GradedCorrect(i, CurrentEntry)}


(***************************************************************************)
(* Properties                                                              *)
(***************************************************************************)
AnyAnswer == \E idx \in AnswerIdx : Answer(idx)

\* a handleAnswer call that got past line 265
GradingStep == (AnyAnswer \/ TimerExpires) /\ ~answered

NoRepeat(seq) == \A i, j \in 1..Len(seq) : seq[i] = seq[j] => i = j

LastCall == answerLog[Len(answerLog)]

\* C1: once the question is graded, a further handleAnswer call, by a click
\* or by the timer, changes neither the score, the missed list, the stored
\* weak words, currentIndex nor the graded flag.
DoubleSubmitIsNoOp ==
    [][(answered /\ AnyAnswer) =>
            UNCHANGED <<correctCount, wrongAnswers, weakWords, currentIndex,
                        answered>>]_vars

\* a graded question has received a further call
DoubleSubmitSeen ==
    /\ view = "quiz"
    /\ answered
    /\ Len(GuardedCalls) > 0
    /\ correctCount + Len(wrongAnswers) > 0

\* C2: when the timer callback grades, the session list and currentIndex
\* are those the timer was started for, and no index of the session is
\* graded twice.
TimerGradesItsQuestion ==
    [][TimerExpires =>
            /\ timerFor.items = quizEntries
            /\ timerFor.index = currentIndex
            /\ NoRepeat(GradedIndices')]_vars

\* C3: no timer is live when the question on screen is graded, on the
\* result screen, or on any screen reached by leaving the quiz.
TimerCancelled == (answered \/ view # "quiz") => ~timerLive

\* a timed vocabulary question was answered by a click, and its timer is gone
TimedQuestionAnsweredByClick ==
    /\ view = "quiz"
    /\ ~isGrammarMode
    /\ timeLimit > 0
    /\ answered
    /\ Len(answerLog) > 0
    /\ ~LastCall.timeout
    /\ ~timerLive

\* C4: nextBtn acts only on a graded question of the quiz screen, adds
\* exactly 1 to currentIndex, and leads to the next question presented or,
\* past the last item, to the result screen with every item graded once in
\* index order; handleAnswer has an effect only on a presented question.
AdvanceInOrder ==
    [][/\ NextBtn =>
            /\ view = "quiz"
            /\ answered
            /\ currentIndex' = currentIndex + 1
            /\ IF currentIndex' < Len(quizEntries)
               THEN Presenting'
               ELSE /\ view' = "result"
                    /\ GradedIndices = Upto(Len(quizEntries))
       /\ ((AnyAnswer \/ TimerExpires)
             /\ <<correctCount, wrongAnswers, weakWords, answered>>'
                   # <<correctCount, wrongAnswers, weakWords, answered>>)
            => Presenting]_vars

\* score + missed = questions graded so far, and = items at completion
Accounted ==
    /\ view = "quiz" =>
          correctCount + Len(wrongAnswers)
              = currentIndex + (IF answered THEN 1 ELSE 0)
    /\ view = "result" => correctCount + Len(wrongAnswers) = Len(quizEntries)

\* C5: score + missed.length equals the number of questions graded so far
\* in every state of a session and items.length on the result screen, and
\* every grading adds exactly 1 to the score or exactly 1 missed entry.
ScoreAccounting ==
    [][/\ Accounted'
       /\ GradingStep =>
            \/ /\ correctCount' = correctCount + 1
               /\ wrongAnswers' = wrongAnswers
            \/ /\ correctCount' = correctCount
               /\ Len(wrongAnswers') = Len(wrongAnswers) + 1]_vars

\* every grading of the session was a correct one: nothing missed, no timeout
EveryGradingCorrect ==
    /\ wrongAnswers = <<>>
    /\ correctCount = Len(GradedCalls)
    /\ \A k \in 1..Len(GradedCalls) : ~GradedCalls[k].timeout

\* C6: on completion the flawless title is shown iff score = items.length
\* and items.length > 0, and that is the case exactly when every question
\* was graded correct (no wrong answer, no timeout, nothing missed).
FlawlessIffAllCorrect ==
    [][(NextBtn /\ view' = "result") =>
            /\ (resultTitle' = "flawless")
                  <=> (correctCount' = Len(quizEntries') /\ Len(quizEntries') > 0)
            /\ (correctCount' = Len(quizEntries') /\ Len(quizEntries') > 0)
                  <=> EveryGradingCorrect']_vars

\* C7: for a question that is not graded, handleAnswer(-1) and
\* handleAnswer(i) of any option i that is not graded correct leave the same
\* score, missed list, stored weak words, graded flag, buttons and nextBtn.
TimeoutEqualsWrongClick ==
    (view = "quiz" /\ ~answered) =>
        \A i \in ButtonIdx \ CorrectIndices :
            /\ HandleAnswer(i) = HandleAnswer(TimeoutIdx)
            /\ NextBtnAfter(HandleAnswer(i)) = NextBtnAfter(HandleAnswer(TimeoutIdx))

\* a vocabulary question was graded by its timer: a missed entry and the
\* word's number stored
TimeoutGraded ==
    /\ view = "quiz"
    /\ ~isGrammarMode
    /\ answered
    /\ Len(answerLog) > 0
    /\ LastCall.timeout
    /\ ~LastCall.guarded
    /\ Len(wrongAnswers) > 0
    /\ CurrentEntry # UndefEntry
    /\ CurrentEntry.number \in WeakSet

\* a grading that appended a missed entry in a vocabulary session
VocabMissStep == GradingStep /\ ~isGrammarMode /\ wrongAnswers' # wrongAnswers

\* C8: the stored weak words change only by a miss in a vocabulary session,
\* which adds the current word's number, by removeWeak(id), which removes
\* that id, and by a confirmed clear, which empties them; these three have
\* exactly that effect and every other step leaves them as they are.
WeakSetFrame ==
    [][/\ WeakSet' # WeakSet =>
            \/ VocabMissStep
            \/ \E id \in weakListModal.ids : RemoveWeak(id)
            \/ ClearHistoryBtn(TRUE)
       /\ VocabMissStep => WeakSet' = WeakSet \cup {CurrentEntry.number}
       /\ \A id \in weakListModal.ids :
            RemoveWeak(id) => WeakSet' = WeakSet \ {id}
       /\ (ClearHistoryBtn(TRUE) /\ weakWords' # weakWords) => WeakSet' = {}
       /\ (GradingStep /\ (isGrammarMode \/ correctCount' # correctCount))
            => weakWords' = weakWords]_vars

\* both words of a session were missed and one of them removed from the list
WeakWordRemoved ==
    /\ weakListModal.open
    /\ ~isGrammarMode
    /\ Len(wrongAnswers) = 2
    /\ Len(WeakIds) = 1

\* C9: the stored weak words never hold an id twice, and a miss of a word
\* whose number is stored leaves them as they are.
WeakAddIdempotent ==
    /\ NoRepeat(WeakIds)
    /\ (view = "quiz" /\ ~answered /\ ~isGrammarMode
          /\ CurrentEntry # UndefEntry /\ IsVocab(CurrentEntry)
          /\ CurrentEntry.number \in WeakSet)
         => \A idx \in AnswerIdx : HandleAnswer(idx).weakWords = weakWords

\* the word stored first in an earlier session is the one miss of this session
StoredWordMissedAgain ==
    /\ view = "quiz"
    /\ ~isGrammarMode
    /\ answered
    /\ Len(wrongAnswers) = 1
    /\ Len(WeakIds) = 2
    /\ CurrentEntry # UndefEntry
    /\ IsVocab(CurrentEntry)
    /\ CurrentEntry.number = WeakIds[1]
    /\ wrongAnswers[1].english = CurrentEntry.english

\* C10: for a presented question exactly one answer index is graded correct,
\* and it is the option of the current item.
OneCorrectOption ==
    Presenting =>
        /\ Cardinality(CorrectIndices) = 1
        /\ \A i \in CorrectIndices :
              /\ i < Len(currentChoicesData)
              /\ IF isGrammarMode
                 THEN TextOfChoice(ChoiceAt(i)) = Field(CurrentEntry, "correct")
                 ELSE EntryOfChoice(ChoiceAt(i)) = CurrentEntry

\* the choice list on screen is an outcome of buildChoices(entry)
ChoicesGeneratedFor(entry) ==
    \E b \in BuildChoices(entry, allEntries, isGrammarMode) :
        ~b.threw /\ b.data = currentChoicesData

\* C11: whenever a question is presented or graded, the choice list on
\* screen was built for the item at the current index and holds an option
\* that is graded correct for it.
ChoicesBelongToQuestion ==
    (view = "quiz" /\ (Presenting \/ answered)) =>
        /\ ChoicesGeneratedFor(CurrentEntry)
        /\ CorrectIndices # {}

\* C12: while the fetch of a start or force-update handler is outstanding,
\* the button of that handler is disabled, so that no handler is in flight
\* twice.
InFlightGuard ==
    /\ pending.start > 0 => startBtnDisabled
    /\ pending.grammar > 0 => grammarStartBtnDisabled
    /\ pending.force > 0 => forceUpdateBtnDisabled
    /\ pending.start <= 1
    /\ pending.grammar <= 1
    /\ pending.force <= 1

\* a question of a session is presented or graded
InSession == view = "quiz" /\ (Presenting \/ answered)

\* C13: while a question of a session is presented or graded, the items,
\* the index, the score and the missed list change only by handleAnswer and
\* by nextBtn; the completion of a start fetch never changes them.
SessionIsolation ==
    [][(/\ InSession
        /\ <<quizEntries, currentIndex, correctCount, wrongAnswers>>'
             # <<quizEntries, currentIndex, correctCount, wrongAnswers>>)
         => (AnyAnswer \/ TimerExpires \/ NextBtn)]_vars

RecordKind(e) ==
    IF IsGrammar(e) THEN "grammar" ELSE IF IsVocab(e) THEN "vocabulary" ELSE "none"

ModeKind == IF isGrammarMode THEN "grammar" ELSE "vocabulary"

\* C14: whenever a question is presented or graded, every session item and
\* every record of the loaded list is of the kind of the active mode.
ModeHomogeneous ==
    InSession =>
        /\ \A k \in 1..Len(quizEntries) : RecordKind(quizEntries[k]) = ModeKind
        /\ \A k \in 1..Len(allEntries) : RecordKind(allEntries[k]) = ModeKind

\* a step in which a start handler runs to its end: its fetch completes,
\* or the click finds the file cached
StartCompletes ==
    \/ \E o \in FetchOutcomes(VocabFile) : StartFetchDone(o)
    \/ \E o \in FetchOutcomes(GrammarFile) : GrammarStartFetchDone(o)
    \/ (\E sel \in TimerSelectValues : StartBtn(sel)) /\ pending' = pending
    \/ (\E d \in GrammarDifficultyValues : GrammarStartBtn(d)) /\ pending' = pending

\* a fresh session with question 0 presented
SessionBuilt ==
    /\ view = "quiz"
    /\ Presenting
    /\ quizEntries # <<>>
    /\ currentIndex = 0
    /\ correctCount = 0
    /\ wrongAnswers = <<>>

\* C15: a start handler that runs to its end either leaves a fresh session
\* with question 0 presented, or (having shown an error) leaves the items,
\* the index, the score, the missed list and the view as they were.
StartIsAtomic ==
    [][StartCompletes =>
          \/ SessionBuilt'
          \/ /\ UNCHANGED <<quizEntries, currentIndex, correctCount, wrongAnswers>>
             /\ view' = view]_vars

\* a step in which the start handler, with the weak-words box checked, finds
\* no record of the loaded list among the stored weak words (line 558)
WeakOnlyStartFails ==
    \E form \in StartForms :
      /\ form.weakMode
      /\ \/ /\ CacheHit(VocabFile, FALSE)
            /\ VocabFilter(csvCache[VocabFile].list, TRUE,
                           form.rangeStart, form.rangeEnd).data = <<>>
            /\ \E sel \in TimerSelectValues : StartBtnWith(sel, form)
         \/ \E o \in FetchOutcomes(VocabFile) \ {NetworkError} :
              /\ VocabFilter(ParseCsv(o, FALSE), TRUE,
                             form.rangeStart, form.rangeEnd).data = <<>>
              /\ StartFetchDoneWith(o, form)

\* C16: a weak-words start that finds no stored weak word in the loaded
\* list changes neither the items, the index, the score, the missed list
\* and the stored weak words, nor the loaded list and the time limit.
WeakOnlyStartMutatesNothing ==
    [][WeakOnlyStartFails =>
          UNCHANGED <<quizEntries, currentIndex, correctCount, wrongAnswers,
                      weakWords, allEntries, timeLimit>>]_vars

\* a step in which the fetch of a start handler fails
StartFetchFails ==
    \/ \E form \in StartForms : StartFetchDoneWith(NetworkError, form)
    \/ \E c \in GrammarCountInputs : GrammarStartFetchDoneWith(NetworkError, c)

\* a click on a start button that has to fetch its file
StartAwaitsFetch ==
    \/ (\E sel \in TimerSelectValues : StartBtn(sel)) /\ pending' # pending
    \/ (\E d \in GrammarDifficultyValues : GrammarStartBtn(d)) /\ pending' # pending

\* C17: a start whose fetch fails leaves, from the click to the failure,
\* the items, the index, the score, the missed list, the view and the cache
\* as they were, and the failure re-enables the button of the handler.
FetchFailureKeepsState ==
    [][/\ (StartAwaitsFetch \/ StartFetchFails) =>
             UNCHANGED <<quizEntries, currentIndex, correctCount, wrongAnswers,
                         view, csvCache>>
       /\ (StartFetchFails /\ pending'.start < pending.start) => ~startBtnDisabled'
       /\ (StartFetchFails /\ pending'.grammar < pending.grammar)
            => ~grammarStartBtnDisabled']_vars

\* the fetch of a vocabulary start has failed: the click set the time limit,
\* nothing is awaited, the file is not cached and the menu is usable again
StartFetchFailedOnMenu ==
    /\ view = "menu"
    /\ timeLimit = 5
    /\ pending.start = 0
    /\ ~csvCache[VocabFile].cached
    /\ ~startBtnDisabled
    /\ quizEntries = <<>>

\* a step in which a fetch of loadCsv is answered with a non-success response
NonSuccessResponse ==
    \/ StartFetchDone(NotFoundBody)
    \/ GrammarStartFetchDone(NotFoundBody)
    \/ ForceUpdateFetchDone(NotFoundBody)

\* C18: a non-success response writes nothing to the cache and gives the
\* caller no record list: the cache and the loaded list stay as they were.
NonSuccessIsFailure ==
    [][NonSuccessResponse => UNCHANGED <<csvCache, allEntries>>]_vars

\* C19: with no stored weak words, or a stored value that is not a list,
\* grading a presented vocabulary question runs to its end, a miss leaves
\* exactly the missed word stored, and the weak list opens empty.
StoredValueReadAsEmpty ==
    [][/\ (/\ GradingStep
           /\ weakWords.kind # "array"
           /\ ~isGrammarMode
           /\ Presenting
           /\ ChoicesGeneratedFor(CurrentEntry))
          => /\ ~nextBtnDisabled'
             /\ wrongAnswers' # wrongAnswers => WeakSet' = {CurrentEntry.number}
       /\ (OpenWeakListBtn /\ weakWords.kind # "array")
          => weakListModal' = [open |-> TRUE, ids |-> {}]]_vars

Min2(a, b) == IF a <= b THEN a ELSE b

\* the number of vocabulary records of  list  that pass the filter of  form
AvailableVocab(list, form) ==
    Len(VocabFilter(list, form.weakMode, form.rangeStart, form.rangeEnd).data)

\* C20: a session built by a start handler has as many items as the smaller
\* of the requested count (20 for a field without a number) and the number
\* of records that passed the filter, whatever integer the field holds.
SessionLengthIsMin ==
    [][/\ \A form \in StartForms \cup OtherCountForms :
            /\ (/\ CacheHit(VocabFile, FALSE)
                /\ \E sel \in TimerSelectValues : StartBtnWith(sel, form)
                /\ SessionBuilt')
               => Len(quizEntries') =
                    Min2(CountOf(form.count),
                         AvailableVocab(csvCache[VocabFile].list, form))
            /\ \A o \in FetchOutcomes(VocabFile) \ {NetworkError} :
                 (StartFetchDoneWith(o, form) /\ SessionBuilt')
                 => Len(quizEntries') =
                      Min2(CountOf(form.count),
                           AvailableVocab(ParseCsv(o, FALSE), form))
       /\ \A c \in GrammarCountInputs \cup OtherCountInputs :
            /\ \A d \in GrammarDifficultyValues :
                 (/\ CacheHit(GrammarFile, FALSE)
                  /\ GrammarStartBtnWith(d, c)
                  /\ SessionBuilt')
                 => Len(quizEntries') =
                      Min2(CountOf(c),
                           Len(GrammarFilter(csvCache[GrammarFile].list, d).data))
            /\ \A o \in FetchOutcomes(GrammarFile) \ {NetworkError} :
                 (GrammarStartFetchDoneWith(o, c) /\ SessionBuilt')
                 => Len(quizEntries') =
                      Min2(CountOf(c),
                           Len(GrammarFilter(ParseCsv(o, TRUE),
                                             currentGrammarDifficulty).data))]_vars

(***************************************************************************)
(* Other filter settings: a range end, a bound that is no number, and a    *)
(* difficulty that difficultyMap does not map                              *)
(***************************************************************************)
OtherRangeForms ==
    [weakMode : {FALSE}, rangeStart : OtherRangeStartInputs,
     rangeEnd : OtherRangeEndInputs,
     count : CountInputs]

OtherDifficultyValues == {"all"}

NextFilters ==
    \/ Next
    \/ \E sel \in TimerSelectValues, form \in OtherRangeForms :
          StartBtnWith(sel, form)
    \/ \E outcome \in FetchOutcomes(VocabFile), form \in OtherRangeForms :
          StartFetchDoneWith(outcome, form)
    \/ \E d \in OtherDifficultyValues, c \in GrammarCountInputs :
          GrammarStartBtnWith(d, c)

SpecFilters == Init /\ [][NextFilters]_vars

\* the text is an integer numeral
IsNumeral(text) ==
    LET t    == Trim(text)
        body == IF t # <<>> /\ Head(t) \in {"-", "+"} THEN Tail(t) ELSE t
    IN  body # <<>> /\ \A i \in 1..Len(body) : IsDigit(body[i])

\* the tier a selected difficulty stands for, <<>> for a selection without one
TierOf(d) ==
    CASE d = "basic" -> <<"1">>
      [] d = "standard" -> <<"2">>
      [] d = "advanced" -> <<"3">>
      [] OTHER -> <<>>

\* every item passes the filter the form asks for, with the weak words as
\* stored when the session is built
PassVocabFilter(items, form, weak) ==
    \A k \in 1..Len(items) :
        IF form.weakMode
        THEN items[k].number \in weak
        ELSE /\ IsNumeral(form.rangeStart)
                  => items[k].number >= ParseInt(form.rangeStart).val
             /\ IsNumeral(form.rangeEnd)
                  => items[k].number <= ParseInt(form.rangeEnd).val

PassGrammarFilter(items, d) ==
    \A k \in 1..Len(items) :
        TierOf(d) # <<>> => Field(items[k], "difficulty") = TierOf(d)

\* the record lists the fetches of the start handlers return
ParsedVocabFile == ParseCsv(ServerText(VocabFile), FALSE)

ParsedGrammarFile == ParseCsv(ServerText(GrammarFile), TRUE)

\* items  is what lines 568 / 617 make of the filtered list  data
BuiltFrom(items, data, countInput) ==
    \E shuffled \in Shuffles(data) : items = SliceCount(shuffled, CountOf(countInput))

\* the start handler can have built  items  from  list  with  form
VocabBuiltWith(items, list, form) ==
    /\ items # <<>>
    /\ ~(form.weakMode /\ WeakReadThrows)
    /\ BuiltFrom(items,
                 VocabFilter(list, form.weakMode, form.rangeStart, form.rangeEnd).data,
                 form.count)

GrammarBuiltWith(items, list, d, c) ==
    /\ items # <<>>
    /\ BuiltFrom(items, GrammarFilter(list, d).data, c)

\* a start button clicked with its file cached, and a start fetch answered
VocabStartFromCache ==
    view = "menu" /\ clicks' # clicks /\ pending' = pending /\ csvCache[VocabFile].cached

VocabStartFromFetch ==
    pending'.start < pending.start /\ allEntries' # allEntries

GrammarStartFromCache ==
    /\ view = "grammarMenu"
    /\ clicks' # clicks
    /\ pending' = pending
    /\ csvCache[GrammarFile].cached

GrammarStartFromFetch ==
    pending'.grammar < pending.grammar /\ allEntries' # allEntries

\* C21: a start handler that shows the quiz view has built at least one
\* item, and the items a start handler builds pass the filter of every form
\* setting they can have been built with: stored as weak, within the numeric
\* bounds of the range, or of the tier of the selected difficulty.
SessionItemsPassFilter ==
    [][/\ (view # "quiz" /\ view' = "quiz") => quizEntries' # <<>>
       /\ \A form \in StartForms \cup OtherRangeForms :
            /\ (/\ VocabStartFromCache
                /\ VocabBuiltWith(quizEntries', csvCache[VocabFile].list, form))
               => PassVocabFilter(quizEntries', form, WeakSet)
            /\ (/\ VocabStartFromFetch
                /\ VocabBuiltWith(quizEntries', ParsedVocabFile, form))
               => PassVocabFilter(quizEntries', form, WeakSet)
       /\ \A c \in GrammarCountInputs :
            /\ \A d \in GrammarDifficultyValues \cup OtherDifficultyValues :
                 (/\ GrammarStartFromCache
                  /\ GrammarBuiltWith(quizEntries', csvCache[GrammarFile].list, d, c))
                 => PassGrammarFilter(quizEntries', d)
            /\ (/\ GrammarStartFromFetch
                /\ GrammarBuiltWith(quizEntries', ParsedGrammarFile,
                                    currentGrammarDifficulty, c))
               => PassGrammarFilter(quizEntries', currentGrammarDifficulty)]_vars

\* a vocabulary session of the words 1 and 2, the range up to 2 of words 1..4
RangeSessionBuilt ==
    /\ SessionBuilt
    /\ ~isGrammarMode
    /\ Len(quizEntries) = 2
    /\ {quizEntries[k].number : k \in 1..2} = {1, 2}
    /\ Len(allEntries) = 4

\* C22: a start click that finds an entry for its file in the cache, an
\* empty list included, issues no fetch and goes on with that entry; a start
\* click that finds none, and every force-update click, issues one fetch.
CacheHitIssuesNoFetch ==
    [][/\ \A sel \in TimerSelectValues :
            StartBtn(sel) =>
               IF csvCache[VocabFile].cached
               THEN /\ pending' = pending
                    /\ allEntries' = csvCache'[VocabFile].list
                    /\ csvCache'[VocabFile].cached
                    /\ Len(allEntries') = Len(csvCache[VocabFile].list)
               ELSE pending' = [pending EXCEPT !.start = @ + 1]
       /\ \A d \in GrammarDifficultyValues :
            GrammarStartBtn(d) =>
               IF csvCache[GrammarFile].cached
               THEN /\ pending' = pending
                    /\ allEntries' = csvCache'[GrammarFile].list
                    /\ csvCache'[GrammarFile].cached
                    /\ Len(allEntries') = Len(csvCache[GrammarFile].list)
               ELSE pending' = [pending EXCEPT !.grammar = @ + 1]
       /\ ForceUpdateBtn => pending' = [pending EXCEPT !.force = @ + 1]]_vars

\* a second vocabulary session, built by a click that found the file cached:
\* a word was missed in the session of the first click
SessionBuiltFromCache ==
    /\ SessionBuilt
    /\ ~isGrammarMode
    /\ clicks = 2
    /\ answerLog = <<>>
    /\ WeakSet # {}
    /\ pending = NoPending
    /\ csvCache[VocabFile].cached

\* the records of a list, whatever their order
RecordSet(list) == {list[k] : k \in 1..Len(list)}

\* a step in which a force-update fetch is answered
ForceRefreshLands == pending'.force < pending.force

\* C23: the set of records of a cache entry that exists changes only when a
\* force-update fetch lands; the fetch of a start handler that lands later
\* leaves the entry as the force update wrote it.
CacheEntryChangesByForceOnly ==
    [][\A f \in Files :
          (/\ csvCache[f].cached
           /\ RecordSet(csvCache'[f].list) # RecordSet(csvCache[f].list))
          => ForceRefreshLands]_vars

\* C24: the list of a cache entry that exists, its records in their order,
\* changes only when a fetch of loadCsv lands; building a session and its
\* choices from the cached list leaves it as it is.
CacheWrittenOnlyByLoad ==
    [][\A f \in Files :
          (csvCache[f].cached /\ csvCache'[f].list # csvCache[f].list)
          => pending' # pending /\ clicks' = clicks]_vars

(***************************************************************************)
(* The per-question timer (lines 310-320, 416-457)                         *)
(***************************************************************************)
\* the question on screen, as loadQuestion hands it to startTimer
PresentedQuestion == [items |-> quizEntries, index |-> currentIndex]

\* C25: while a question is presented and the time limit is positive, the
\* interval is running and it is the one started for that question, in a
\* vocabulary and in a grammar session alike; with a time limit of 0 no
\* interval runs.
TimerRunsForPresentedQuestion ==
    /\ (Presenting /\ timeLimit > 0)
       => (timerLive /\ timerFor = PresentedQuestion)
    /\ (timeLimit = 0) => ~timerLive

(***************************************************************************)
(* Content the parser is probed with.  SpecContent lets the vocabulary     *)
(* start fetch also be answered with a file whose lines have a first field *)
(* that starts with digits, a quoted comma, empty fields at the end of the *)
(* line, a meaning made of the separator only and a repeated number.       *)
(***************************************************************************)
NextContent ==
    \/ Next
    \/ StartFetchDone(ProbeVocabText)

SpecContent == Init /\ [][NextContent]_vars

ParsedProbeVocab == ParseCsv(ProbeVocabText, FALSE)

\* the fields of a line: the text between the commas outside quoted
\* sections, quote characters removed, each field trimmed
RECURSIVE FieldsFrom(_, _, _)
FieldsFrom(line, current, inQuotes) ==
    IF line = <<>> THEN <<Trim(current)>>
    ELSE IF Head(line) = "\"" THEN FieldsFrom(Tail(line), current, ~inQuotes)
    ELSE IF Head(line) = "," /\ ~inQuotes
         THEN <<Trim(current)>> \o FieldsFrom(Tail(line), <<>>, inQuotes)
    ELSE FieldsFrom(Tail(line), Append(current, Head(line)), inQuotes)

FieldsOf(line) == FieldsFrom(line, <<>>, FALSE)

\* the records a vocabulary line stands for: one when its first field is an
\* integer and a field after the term is not empty, none otherwise
ExpectedVocabLine(line, row) ==
    LET fields   == FieldsOf(line)
        meanings == FilterNonEmpty(Slice(fields, 2, Len(fields)))
    IN  IF IsNumeral(fields[1]) /\ meanings # <<>>
        THEN << [number   |-> ParseInt(fields[1]).val,
                 english  |-> fields[2],
                 meanings |-> meanings,
                 row      |-> row] >>
        ELSE <<>>

RECURSIVE ExpectedVocabLines(_, _)
ExpectedVocabLines(lines, row) ==
    IF lines = <<>> THEN <<>>
    ELSE ExpectedVocabLine(Head(lines), row) \o ExpectedVocabLines(Tail(lines), row + 1)

ExpectedVocabFile == ExpectedVocabLines(SplitLines(ServerText(VocabFile)), 1)

ExpectedProbeVocab == ExpectedVocabLines(SplitLines(ProbeVocabText), 1)

\* a response to a vocabulary fetch has been parsed and stored (line 255)
VocabResponseParsed ==
    /\ pending'.start < pending.start \/ pending'.force < pending.force
    /\ csvCache'[VocabFile].cached

\* C26: the record list loadCsv makes of a vocabulary file holds, line by
\* line and in order, one record for each line whose first field is an
\* integer and that has a non-empty field after the term (its number that
\* integer, its term field 1, its meanings the non-empty later fields), and
\* nothing for any other line.
VocabRecordsMatchLines ==
    [][VocabResponseParsed =>
         /\ csvCache'[VocabFile].list = ParsedVocabFile
            => csvCache'[VocabFile].list = ExpectedVocabFile
         /\ csvCache'[VocabFile].list = ParsedProbeVocab
            => csvCache'[VocabFile].list = ExpectedProbeVocab]_vars

\* every line of  text  that loadCsv tokenizes (the lines that are not
\* blank) gives the fields between its commas outside quoted sections
LinesGiveFields(text) ==
    \A i \in 1..Len(SplitLines(text)) :
        LET line == SplitLines(text)[i]
        IN  Trim(line) # <<>> => Tokenize(line) = FieldsOf(line)

VocabFileGivesFields == LinesGiveFields(ServerText(VocabFile))

ProbeVocabGivesFields == LinesGiveFields(ProbeVocabText)

GrammarFileGivesFields == LinesGiveFields(ServerText(GrammarFile))

\* the lines of the grammar file with an integer first field and six fields
\* or more
ExpectedGrammarRows ==
    { i \in 1..Len(SplitLines(ServerText(GrammarFile))) :
        LET fields == FieldsOf(SplitLines(ServerText(GrammarFile))[i])
        IN  IsNumeral(fields[1]) /\ Len(fields) >= 6 }

RowsOf(list) == { list[i].row : i \in 1..Len(list) }

\* a response to the grammar fetch has been parsed and stored (line 255)
GrammarResponseParsed ==
    /\ pending'.grammar < pending.grammar
    /\ csvCache'[GrammarFile].cached

\* C27: when loadCsv has parsed a response, every line it tokenized gave one
\* field more than it has commas outside quoted sections, in order, empty
\* fields included, with the quote characters removed, the quoted commas
\* kept and every field trimmed; and the grammar lines it retained are the
\* lines with an integer first field and at least six such fields.
LinesTokenizedIntoFields ==
    [][/\ VocabResponseParsed =>
            /\ csvCache'[VocabFile].list = ParsedVocabFile => VocabFileGivesFields
            /\ csvCache'[VocabFile].list = ParsedProbeVocab => ProbeVocabGivesFields
       /\ GrammarResponseParsed =>
            (csvCache'[GrammarFile].list = ParsedGrammarFile
             => /\ GrammarFileGivesFields
                /\ RowsOf(csvCache'[GrammarFile].list) = ExpectedGrammarRows)]_vars

\* the wrong choices of a grammar record: its choices after the correct one
DistractorsOf(rec) == Tail(rec.choices)

\* field i (counted from 0) of a line's fields, empty when it is missing
FieldOrEmpty(fields, i) == IF i + 1 <= Len(fields) THEN fields[i + 1] ELSE <<>>

\* rec  is the record of the grammar line with the fields  fields
GrammarRecordOfFields(rec, fields) ==
    /\ rec.question = FieldOrEmpty(fields, 1)
    /\ rec.correct = FieldOrEmpty(fields, 2)
    /\ DistractorsOf(rec) = FilterNonEmpty(<<FieldOrEmpty(fields, 3),
                                             FieldOrEmpty(fields, 4),
                                             FieldOrEmpty(fields, 5)>>)
    /\ rec.source = FieldOrEmpty(fields, 6)
    /\ rec.difficulty = FieldOrEmpty(fields, 7)
    /\ rec.explanation = FieldOrEmpty(fields, 8)

DistractorsWellFormed(rec) ==
    LET d == DistractorsOf(rec)
    IN  /\ Len(d) <= 3
        /\ \A i, j \in 1..Len(d) : i # j => d[i] # d[j]
        /\ \A i \in 1..Len(d) : d[i] # rec.correct

\* C28: every record loadCsv has stored for the grammar file carries the
\* fields of its line (prompt, correct answer, the non-empty ones of the
\* three distractor fields, source, tier and explanation, the last three
\* empty when missing), and its distractors are at most three, pairwise
\* different and different from the correct answer.
GrammarRecordsWellFormed ==
    csvCache[GrammarFile].cached =>
        \A i \in 1..Len(csvCache[GrammarFile].list) :
            LET rec == csvCache[GrammarFile].list[i]
            IN  /\ GrammarRecordOfFields(
                       rec, FieldsOf(SplitLines(ServerText(GrammarFile))[rec.row]))
                /\ DistractorsWellFormed(rec)

\* the numbers of the records of  all  other than the number of  target
OtherNumbers(target, all) ==
    { all[k].number : k \in { j \in 1..Len(all) : all[j].number # target.number } }

\* data  is a vocabulary option list for  target  over the record list  all
VocabOptionsFor(data, target, all) ==
    /\ Cardinality({ i \in 1..Len(data) : data[i].entry = target }) = 1
    /\ \A i \in 1..Len(data) :
         data[i].entry # target =>
            /\ data[i].entry.number # target.number
            /\ \E k \in 1..Len(all) : all[k] = data[i].entry
            /\ \A j \in 1..Len(data) :
                 j # i => data[j].entry.number # data[i].entry.number
    /\ Len(data) = Min2(NumChoiceButtons, 1 + Cardinality(OtherNumbers(target, all)))
    /\ Len(data) < NumChoiceButtons
       <=> Cardinality(OtherNumbers(target, all)) < NumChoiceButtons - 1

\* data  holds the choices of the grammar record  target, each as often as
\* the record has it, and nothing else
GrammarOptionsFor(data, target) ==
    /\ Len(data) = Len(target.choices)
    /\ \A i \in 1..Len(data) :
         Cardinality({ j \in 1..Len(data) : data[j].text = data[i].text })
            = Cardinality({ j \in 1..Len(target.choices) :
                              target.choices[j] = data[i].text })

MeaningSegments(entry) ==
    SelectSeq(SplitOnFrom(JoinWith(entry.meanings, MeaningSep), MeaningSep, <<>>),
              NonBlank)

\* text  is the display text of a record with the segments  segs
DisplayTextOf(text, segs) ==
    /\ text # Undefined
    /\ text # <<>>
    /\ Len(segs) = 1 => text = segs[1]
    /\ Len(segs) >= 2 => text = segs[1] \o <<" ", "/", " ">> \o segs[2]

\* C30: every option of a vocabulary choice list that loadQuestion installs
\* has a display text that is defined and not empty: the one non-blank
\* segment of the record's meanings, or the first two joined by " / ".
DisplayTextDefined ==
    [][(currentChoicesData' # currentChoicesData /\ ~isGrammarMode') =>
         \A i \in 1..Len(currentChoicesData') :
             DisplayTextOf(currentChoicesData'[i].display,
                           MeaningSegments(currentChoicesData'[i].entry))]_vars

(***************************************************************************)
(* Completion, advance and the choice buttons                              *)
(***************************************************************************)
\* the handleAnswer calls since the session was built that graded a question
GradingEvents == { k \in 1..Len(answerLog) : ~answerLog[k].guarded }

\* C31: the quiz view gives way to the result view only when the session
\* has at least one item, every item has been graded once and the advance
\* has been taken once per item: n grading events and currentIndex = n for
\* the n items of the session.
CompletesAfterEveryItem ==
    [][(view = "quiz" /\ view' = "result") =>
          /\ Len(quizEntries) >= 1
          /\ currentIndex' = Len(quizEntries)
          /\ Cardinality(GradingEvents) = Len(quizEntries)]_vars

\* a grading can still come: the interval is running or a choice button
\* with a handler is enabled
SubmitPossible ==
    \/ timerLive
    \/ \E i \in ButtonIdx : ~choiceButtons[i].disabled /\ choiceButtons[i].onclick

\* C32: while the quiz view is shown, the next button is enabled exactly
\* when the question on screen has been graded, and a question that is not
\* graded can still be submitted: no state has the question graded with the
\* next button disabled, or neither a submit nor the advance possible.
NoStuckQuestion ==
    view = "quiz" =>
        /\ ~nextBtnDisabled <=> answered
        /\ SubmitPossible \/ ~nextBtnDisabled

\* C33: a handleAnswer call leaves the session list, currentIndex and the
\* choice list with its order as they are; an advance, a change of the
\* stored weak words (removal, clear, or the store of a missed word) and
\* the completion of a manual refresh leave the session list as it is.
SessionItemsFixed ==
    [][/\ Len(answerLog') = Len(answerLog) + 1
          => /\ quizEntries' = quizEntries
             /\ currentIndex' = currentIndex
             /\ currentChoicesData' = currentChoicesData
       /\ currentIndex' = currentIndex + 1 => quizEntries' = quizEntries
       /\ weakWords' # weakWords => quizEntries' = quizEntries
       /\ pending'.force < pending.force => quizEntries' = quizEntries]_vars

\* a manual refresh has stored the replaced file while the session built
\* from the earlier file is on screen with its first question graded
RefreshedDuringSession ==
    /\ view = "quiz"
    /\ ~isGrammarMode
    /\ quizEntries # <<>>
    /\ allEntries = ParsedVocabFile
    /\ csvCache[VocabFile].list = ParseCsv(UpdatedVocabText, FALSE)
    /\ pending.force = 0
    /\ answered
    /\ Len(answerLog) = 1

\* C34: currentIndex is never negative and never past the length of the
\* session list; a question on the quiz view has an item at currentIndex
\* (the index reaches the length only with the result view), and no
\* question is presented at an index without an item.
IndexInBounds ==
    /\ 0 <= currentIndex
    /\ currentIndex <= Len(quizEntries)
    /\ view = "quiz" => currentIndex < Len(quizEntries)
    /\ Presenting => CurrentEntry # UndefEntry

\* choice button i can be clicked and has a handler
Submittable(i) == ~choiceButtons[i].disabled /\ choiceButtons[i].onclick

\* C35: while a question is presented the choice buttons that can be
\* clicked are the buttons of the generated options: button i is enabled
\* with a handler exactly when the choice list has an option i, so no
\* grading can come from an index without an option.
SubmittableAreOptions ==
    Presenting =>
        \A i \in ButtonIdx : Submittable(i) <=> i < Len(currentChoicesData)

\* loadQuestion has installed a vocabulary choice list in this step
VocabChoicesInstalled ==
    /\ currentChoicesData' # currentChoicesData
    /\ currentChoicesData' # <<>>
    /\ ~isGrammarMode'

\* C36: when loadQuestion installs the choices of a vocabulary question,
\* whatever their number, it completes the presentation: the question is
\* not graded, every option has its button enabled with a handler, and
\* with a positive time limit the interval runs for that question.
VocabPresentationCompletes ==
    [][VocabChoicesInstalled =>
         /\ ~answered'
         /\ \A i \in ButtonIdx :
              i < Len(currentChoicesData')
              => ~choiceButtons'[i].disabled /\ choiceButtons'[i].onclick
         /\ timeLimit' > 0
            => /\ timerLive'
               /\ timerFor' = [items |-> quizEntries', index |-> currentIndex']]_vars

\* C37: the session list a start handler assigns holds pairwise different
\* records, each of them a record of the list loaded for the file, so no
\* record is asked twice in a session.
SessionWithoutReplacement ==
    [][quizEntries' # quizEntries =>
         /\ \A i, j \in 1..Len(quizEntries') :
              i # j => quizEntries'[i] # quizEntries'[j]
         /\ \A i \in 1..Len(quizEntries') :
              \E k \in 1..Len(allEntries') : allEntries'[k] = quizEntries'[i]]_vars

\* a session of two different records with the same number, taken from the
\* file that holds that number on two lines, is on screen
TwoRecordsOfOneNumber ==
    /\ view = "quiz"
    /\ ~isGrammarMode
    /\ allEntries = ParsedProbeVocab
    /\ Len(quizEntries) = 2
    /\ quizEntries[1] # quizEntries[2]
    /\ quizEntries[1].number = quizEntries[2].number
    /\ currentIndex = 0
    /\ answerLog = <<>>

(***************************************************************************)
(* The manual refresh with a fetch that may never be answered.  The        *)
(* callbacks the page has armed with setTimeout and setInterval do run;    *)
(* nothing makes the server answer.                                        *)
(***************************************************************************)
\* The callback armed at line 650, controller.abort(), 5000 ms after the
\* click while loadCsv is still awaited: the controller's signal is handed
\* to no fetch (lines 205, 651), so the call changes nothing.
ForceUpdateGuardElapses ==
    /\ pending.force > 0
    /\ UNCHANGED vars

NextRefresh ==
    \/ Next
    \/ ForceUpdateGuardElapses

SpecRefresh ==
    /\ Init
    /\ [][NextRefresh]_vars
    /\ WF_vars(ForceUpdateReenable)
    /\ WF_vars(ForceUpdateGuardElapses)
    /\ WF_vars(TimerExpires)

\* C38: once the refresh button has been disabled by a click it is enabled
\* again, also when the fetch is never answered.
RefreshButtonComesBack ==
    forceUpdateBtnDisabled ~> ~forceUpdateBtnDisabled

(***************************************************************************)
(* The earlier snapshot of the page kept in src/unnamed/part_000 (its      *)
(* lines 236-533): vocabulary only, and its start handler presents the     *)
(* first question from a 150 ms timeout.  pending.present counts the armed *)
(* timeouts of that kind.  The snapshot never assigns timeLimit, which     *)
(* stays 0, so startTimer (lines 369-379) creates no interval and the      *)
(* interval callback has no step here.  The handlers of the password, the  *)
(* mode selection and the choice buttons are those of the current page     *)
(* (handleAnswer, lines 346-364, is its vocabulary branch).                *)
(***************************************************************************)
\* loadCsv, lines 329-336: line.split(","), every part trimmed
SnapshotParseLine(line, row) ==
    LET split    == SplitOnFrom(line, ",", <<>>)
        parts    == [i \in 1..Len(split) |-> Trim(split[i])]
        num      == ParseInt(At(parts, 0))
        meanings == FilterNonEmpty(Slice(parts, 2, Len(parts)))
    IN  IF ~num.nan /\ meanings # <<>>
        THEN << [number   |-> num.val,
                 english  |-> At(parts, 1),
                 meanings |-> meanings,
                 row      |-> row] >>
        ELSE <<>>

RECURSIVE SnapshotParseLines(_, _)
SnapshotParseLines(lines, row) ==
    IF lines = <<>> THEN <<>>
    ELSE SnapshotParseLine(Head(lines), row) \o SnapshotParseLines(Tail(lines), row + 1)

SnapshotParseCsv(text) == SnapshotParseLines(SplitLines(text), 1)

\* The state loadQuestion (lines 403-413) leaves for the session list
\* entries  at index  idx, with  built  the outcome of buildChoices.  It
\* throws at entry.english for a missing entry (line 408) and at
\* currentChoicesData[i].display past the last choice (line 411); startTimer
\* is its last call.
SnapshotLoadQuestion(entries, idx, built) ==
    LET entry == EntryAt(entries, idx)
        base  == [answered           |-> FALSE,
                  nextBtnDisabled    |-> TRUE,
                  currentChoicesData |-> currentChoicesData,
                  choiceButtons      |-> choiceButtons,
                  timer              |-> [live |-> timerLive, for |-> timerFor],
                  threw              |-> TRUE]
    IN  IF entry = UndefEntry \/ built.threw THEN base
        ELSE IF Len(built.data) < NumChoiceButtons
        THEN [base EXCEPT !.currentChoicesData = built.data,
                          !.choiceButtons =
                              [i \in ButtonIdx |->
                                  IF i < Len(built.data) THEN LiveButton
                                  ELSE choiceButtons[i]]]
        ELSE [base EXCEPT !.currentChoicesData = built.data,
                          !.choiceButtons = [i \in ButtonIdx |-> LiveButton],
                          !.timer = StartTimer(timeLimit, [items |-> entries, index |-> idx]),
                          !.threw = FALSE]

snapshotFrame ==
    <<isGrammarMode, currentGrammarDifficulty, timeLimit, weakWords,
      grammarStartBtnDisabled, forceUpdateBtnDisabled, resultTitle, weakListModal>>

\* startBtn.onclick after the await of line 436, with  list  what loadCsv
\* returned,  cache  the cache it left and  pend  the suspended handlers
\* that remain: lines 437-461.  A session that is built shows the quiz view
\* and arms the timeout of line 460; the button stays disabled until then.
SnapshotStartContinue(list, cache, pend, form) ==
    LET f == VocabFilter(list, form.weakMode, form.rangeStart, form.rangeEnd)
    IN
    /\ UNCHANGED <<answered, nextBtnDisabled, currentChoicesData, choiceButtons>>
    /\ IF form.weakMode /\ (WeakReadThrows \/ f.data = <<>>)
       THEN \* line 440 or line 442: throw, caught at line 461
            /\ allEntries' = list
            /\ csvCache' = cache
            /\ startBtnDisabled' = FALSE
            /\ pending' = pend
            /\ UNCHANGED <<sessionVars, view>>
       ELSE \E shuffled \in Shuffles(f.data) :
            LET sorted == IF f.copied THEN list ELSE shuffled
                items  == SliceCount(shuffled, CountOf(form.count))
            IN
            /\ allEntries' = sorted
            /\ csvCache' = [cache EXCEPT ![VocabFile].list = sorted]
            /\ quizEntries' = items
            /\ IF items = <<>>
               THEN \* line 452: throw after quizEntries was assigned
                    /\ startBtnDisabled' = FALSE
                    /\ pending' = pend
                    /\ UNCHANGED <<scoreVars, view>>
               ELSE /\ currentIndex' = 0
                    /\ correctCount' = 0
                    /\ wrongAnswers' = <<>>
                    /\ answerLog' = <<>>
                    /\ view' = "quiz"
                    /\ startBtnDisabled' = TRUE
                    /\ pending' = [pend EXCEPT !.present = @ + 1]

\* The click, lines 429-436; with a cached list the handler resumes at once.
SnapshotStartBtn(form) ==
    /\ Usable("menu")
    /\ ~startBtnDisabled
    /\ clicks < MaxClicks
    /\ clicks' = clicks + 1
    /\ timerLive' = FALSE
    /\ timerFor' = NoQuestion
    /\ IF csvCache[VocabFile].cached
       THEN SnapshotStartContinue(csvCache[VocabFile].list, csvCache, pending, form)
       ELSE /\ pending' = [pending EXCEPT !.start = @ + 1]
            /\ startBtnDisabled' = TRUE
            /\ UNCHANGED <<allEntries, csvCache, sessionVars, view, answered,
                           nextBtnDisabled, currentChoicesData, choiceButtons>>
    /\ UNCHANGED snapshotFrame

\* The fetch of a suspended startBtn handler completes (lines 326-338, 436).
SnapshotStartFetchDone(outcome, form) ==
    /\ pending.start > 0
    /\ IF outcome = NetworkError
       THEN /\ startBtnDisabled' = FALSE
            /\ pending' = [pending EXCEPT !.start = @ - 1]
            /\ UNCHANGED <<allEntries, csvCache, sessionVars, view, answered,
                           nextBtnDisabled, currentChoicesData, choiceButtons>>
       ELSE SnapshotStartContinue(
                SnapshotParseCsv(outcome),
                [csvCache EXCEPT ![VocabFile] =
                    [cached |-> TRUE, list |-> SnapshotParseCsv(outcome)]],
                [pending EXCEPT !.start = @ - 1], form)
    /\ UNCHANGED <<timerLive, timerFor, clicks, snapshotFrame>>

\* The timeout callback of line 460: loadQuestion(), then the start button
\* is enabled again (not when loadQuestion throws).
SnapshotPresentAfterDelay ==
    /\ pending.present > 0
    /\ pending' = [pending EXCEPT !.present = @ - 1]
    /\ \E built \in BuildChoices(EntryAt(quizEntries, currentIndex), allEntries, FALSE) :
         LET lq == SnapshotLoadQuestion(quizEntries, currentIndex, built)
         IN  /\ answered' = lq.answered
             /\ nextBtnDisabled' = lq.nextBtnDisabled
             /\ currentChoicesData' = lq.currentChoicesData
             /\ choiceButtons' = lq.choiceButtons
             /\ timerLive' = lq.timer.live
             /\ timerFor' = lq.timer.for
             /\ startBtnDisabled' = IF lq.threw THEN startBtnDisabled ELSE FALSE
    /\ UNCHANGED <<view, allEntries, csvCache, sessionVars, clicks, snapshotFrame>>

\* nextBtn.onclick, lines 482-497
SnapshotNextBtn ==
    /\ Usable("quiz")
    /\ ~nextBtnDisabled
    /\ currentIndex' = currentIndex + 1
    /\ IF currentIndex + 1 >= Len(quizEntries)
       THEN /\ view' = "result"
            /\ resultTitle' = IF Flawless(correctCount, quizEntries)
                              THEN "flawless" ELSE "result"
            /\ UNCHANGED <<answered, nextBtnDisabled, currentChoicesData,
                           choiceButtons, timerLive, timerFor>>
       ELSE \E built \in BuildChoices(EntryAt(quizEntries, currentIndex + 1),
                                      allEntries, FALSE) :
            LET lq == SnapshotLoadQuestion(quizEntries, currentIndex + 1, built)
            IN
            /\ answered' = lq.answered
            /\ nextBtnDisabled' = lq.nextBtnDisabled
            /\ currentChoicesData' = lq.currentChoicesData
            /\ choiceButtons' = lq.choiceButtons
            /\ timerLive' = lq.timer.live
            /\ timerFor' = lq.timer.for
            /\ UNCHANGED <<view, resultTitle>>
    /\ UNCHANGED nextFrame

snapshotLeaveFrame ==
    <<allEntries, csvCache, sessionVars, answered, nextBtnDisabled,
      currentChoicesData, choiceButtons, startBtnDisabled, pending, clicks,
      snapshotFrame>>

\* backBtn.onclick, line 529: the interval is cleared, the menu is shown;
\* an armed timeout of line 460 stays armed
SnapshotBackBtn ==
    /\ Usable("quiz")
    /\ timerLive' = FALSE
    /\ timerFor' = NoQuestion
    /\ view' = "menu"
    /\ UNCHANGED snapshotLeaveFrame

\* restartBtn.onclick, line 530
SnapshotRestartBtn ==
    /\ Usable("result")
    /\ view' = "menu"
    /\ UNCHANGED <<timerLive, timerFor, snapshotLeaveFrame>>

NextSnapshot ==
    \/ \E input \in PasswordInputs : PasswordBtn(input)
    \/ SelectVocabBtn
    \/ BackToModeBtn
    \/ \E form \in StartForms : SnapshotStartBtn(form)
    \/ \E outcome \in FetchOutcomes(VocabFile), form \in StartForms :
         SnapshotStartFetchDone(outcome, form)
    \/ SnapshotPresentAfterDelay
    \/ \E i \in ButtonIdx : ChoiceBtn(i)
    \/ SnapshotNextBtn
    \/ SnapshotBackBtn
    \/ SnapshotRestartBtn

SpecSnapshot == Init /\ [][NextSnapshot]_vars

\* C39: while the user stays on the menu, no question is loaded into the
\* quiz view, no interval is running, no answer is graded and no id is
\* added to the stored weak words; this covers the menu reached with the
\* back button while the timeout of the start handler is armed.
AbandonedSessionStaysQuiet ==
    [][(view = "menu" /\ view' = "menu") =>
          /\ currentChoicesData' = currentChoicesData
          /\ answered' = answered
          /\ ~timerLive'
          /\ answerLog' = answerLog
          /\ WeakSet' \subseteq WeakSet]_vars

=============================================================================
